---- MODULE Spec2Model ----
(***************************************************************************)
(* Model of the harness hooks' shared utilities                            *)
(* (skills/harness/hooks/_harness_common.py): the task eligibility engine, *)
(* lease reaping and the mkdir-based lock.                                 *)
(*                                                                         *)
(* Values read from the JSON document are dynamically typed in the source. *)
(* A field that may be absent or malformed is a record [k, v] whose k      *)
(* names the kind of value found ("absent", "int", "bad", "list", ...).    *)
(* A string that the code orders (a task id) is the sequence of its        *)
(* character codes, so that Python's string comparison is modelled.        *)
(***************************************************************************)
EXTENDS Integers, Sequences, FiniteSets, TLC

VARIABLES
    tasks,          \* the task list handed to eligible_tasks / reap_stale_leases
    before,         \* the task list as it was when the last call started
    pendingReady,   \* eligible_tasks()[0]: positions in tasks (object references)
    retryReady,     \* eligible_tasks()[1]
    nextTask,       \* pick_next(): a position in tasks, 0 for None
    changed,        \* the flag returned by the last reap_stale_leases
    reapNow,        \* the `now` argument of the last reap_stale_leases
    op,             \* the last operation applied
    lock,           \* the directory at the lock path: which one, and its pid file
    pc,             \* where each process is in acquire_lock / release_lock
    missing_pid_since, \* acquire_lock: whether missing_pid_since is set, per process
    pid,            \* acquire_lock: pid, as _read_pid last returned it
    seen,           \* the directory that pid was read from
    stale,          \* the directories renamed to a scratch name so far
    doc,            \* the file at the document path
    tmp,            \* the file at <document>.tmp
    bak,            \* the file at <document>.bak
    wpc,            \* where the writer is in atomic_write_json
    data,           \* atomic_write_json: the content being saved
    prev,           \* the document as it was when the save started
    readDoc,        \* what a reader of the document path last saw
    stage,          \* where each worker is in claiming a task
    chosen,         \* the task each worker chose from its unlocked read
    local,          \* the task list each worker re-read under the lock
    claimers,       \* per task, the workers that have committed a claim of it
    corrupt,        \* harness-tasks.json cannot be loaded
    stopCounter,    \* .harness-stop-counter: "blocks,completed", or no file
    decision,       \* the Stop hook's last decision
    warn,           \* the last Stop hook invocation wrote WARN to stderr
    flag,           \* stop_hook_active of the last Stop hook invocation
    cntBefore,      \* .harness-stop-counter when that invocation started
    allActive,      \* every invocation since the last progress carried the flag
    mode,           \* session_config.concurrency_mode of the document
    limitReached,   \* the document's session limit is reached
    workerId,       \* HARNESS_WORKER_ID in the environment, "" when unset
    hasRoot,        \* a directory with harness-tasks.json is found
    harnessActive,  \* .harness-active exists
    reflectMarker,  \* .harness-reflect exists
    maxEnv,         \* REFLECT_MAX_ITERATIONS in the environment
    rcounter,       \* per session id, the file claude-reflect-<session_id>
    out,            \* what the reflection hook's last invocation printed
    sid,            \* session_id of that invocation
    issued,         \* per session id, the reflection blocks issued to it
    file,           \* the content of a harness-tasks.json that is being loaded
    state,          \* what load_json returned or raised
    parsed,         \* what parse_tasks returned or raised
    ppc,            \* how far loading has got
    stdin,          \* what the host wrote to the hook's standard input
    payload,        \* what the hook's payload reader returned or raised
    rc,             \* the exit status of the last hook process
    currentTask,    \* the file .claude/do-tasks/.current-task
    taskJson,       \* the file task.json of the do task's directory
    doOut           \* what the do Stop hook last printed, and its exit status

taskVars == <<tasks, before, pendingReady, retryReady, nextTask, changed, reapNow, op>>
lockVars == <<lock, pc, missing_pid_since, pid, seen, stale>>
storeVars == <<doc, tmp, bak, wpc, data, prev, readDoc>>
claimVars == <<stage, chosen, local, claimers>>
stopVars == <<corrupt, stopCounter, decision, warn, flag, cntBefore, allActive,
              mode, limitReached, workerId>>
reflectVars == <<hasRoot, harnessActive, reflectMarker, maxEnv, rcounter, out, sid, issued>>
parseVars == <<file, state, parsed, ppc>>
payloadVars == <<stdin, payload, rc>>
doVars == <<currentTask, taskJson, doOut>>
vars == <<tasks, before, pendingReady, retryReady, nextTask, changed, reapNow, op,
          lock, pc, missing_pid_since, pid, seen, stale,
          doc, tmp, bak, wpc, data, prev, readDoc,
          stage, chosen, local, claimers,
          corrupt, stopCounter, decision, warn, flag, cntBefore, allActive,
          mode, limitReached, workerId,
          hasRoot, harnessActive, reflectMarker, maxEnv, rcounter, out, sid, issued,
          file, state, parsed, ppc,
          stdin, payload, rc,
          currentTask, taskJson, doOut>>

\* what the operations on the task list, on the lock and on the document
\* file leave alone
exceptTasks == <<lockVars, storeVars, claimVars, stopVars, reflectVars, parseVars,
                 payloadVars, doVars>>
exceptLock == <<taskVars, storeVars, claimVars, stopVars, reflectVars, parseVars,
                payloadVars, doVars>>
exceptStore == <<taskVars, lockVars, claimVars, stopVars, reflectVars, parseVars,
                 payloadVars, doVars>>

----------------------------------------------------------------------------
(* Bounds of the model *)

MaxTasks == 3
MaxNow == 1
MaxWrites == 3

\* the largest count of consecutive blocks the model follows
MaxBlocks == 12

\* the largest number of reflection blocks to one session the model follows
MaxIssued == 7

\* the largest number of tasks in the documents the Stop hook is explored on
MaxDecide == 2

----------------------------------------------------------------------------
(* Dynamically typed values *)

Absent == [k |-> "absent", v |-> 0]
Bad == [k |-> "bad", v |-> 0]
IntV(n) == [k |-> "int", v |-> n]

NoDeps == [k |-> "absent", v |-> <<>>]
DepList(s) == [k |-> "list", v |-> s]
DepOther == [k |-> "other", v |-> <<>>]

NoLog == [k |-> "absent", v |-> <<>>]
LogList(s) == [k |-> "list", v |-> s]
LogOther == [k |-> "other", v |-> <<>>]

NoLease == [k |-> "absent", t |-> 0, off |-> 0]
BadLease == [k |-> "bad", t |-> 0, off |-> 0]
IsoLease(t, off) == [k |-> "iso", t |-> t, off |-> off]

NoKey == "<absent>"

----------------------------------------------------------------------------
(* Time helpers *)

\* parse_iso: None for a missing, non-string, blank or unparseable value;
\* otherwise the instant in UTC (a naive or Z time has offset 0).
NoTime == [ok |-> FALSE, t |-> 0]
parse_iso(ts) ==
    IF ts.k # "iso" THEN NoTime ELSE [ok |-> TRUE, t |-> ts.t - ts.off]

----------------------------------------------------------------------------
(* Task helpers *)

DefaultMaxAttempts == 3
UnknownRank == 9

priority_rank(v) ==
    CASE v = "P0" -> 0
      [] v = "P1" -> 1
      [] v = "P2" -> 2
      [] OTHER -> UnknownRank

task_attempts(t) ==
    IF t.attempts.k = "int" THEN t.attempts.v ELSE 0

task_max_attempts(t) ==
    IF t.max_attempts.k = "int" THEN t.max_attempts.v ELSE DefaultMaxAttempts

InSeq(x, s) == \E i \in DOMAIN s : s[i] = x

\* a plausible slip: any() for all()
deps_completed_any(t, done) ==
    IF t.depends_on.k = "other" THEN FALSE
    ELSE \/ t.depends_on.v = <<>>
         \/ \E i \in DOMAIN t.depends_on.v : t.depends_on.v[i] \in done

deps_completed(t, done) ==
    IF t.depends_on.k = "other" THEN FALSE
    ELSE \A i \in DOMAIN t.depends_on.v : t.depends_on.v[i] \in done

completed_ids(ts) ==
    {ts[i].id : i \in {j \in DOMAIN ts : ts[j].status = "completed"}}

\* Python's < on str: lexicographic on code points, a proper prefix is smaller.
RECURSIVE StrLess(_, _)
StrLess(a, b) ==
    IF b = <<>> THEN FALSE
    ELSE IF a = <<>> THEN TRUE
    ELSE IF Head(a) # Head(b) THEN Head(a) < Head(b)
    ELSE StrLess(Tail(a), Tail(b))

\* a plausible slip: the id alone as the sort key
key_id_only(t) == <<0, t.id>>

\* a plausible slip: the priority alone as the sort key
key_priority_only(t) == <<priority_rank(t.priority), <<>>>>

\* eligible_tasks.key: (priority_rank(priority), str(id))
key(t) == <<priority_rank(t.priority), t.id>>

\* Python's < on the key tuples
KeyLess(k1, k2) ==
    \/ k1[1] < k2[1]
    \/ k1[1] = k2[1] /\ StrLess(k1[2], k2[2])

\* list.sort(key=key): stable, so an element is inserted after every element
\* whose key is not greater than its own.
RECURSIVE InsertByKey(_, _, _)
InsertByKey(ts, i, s) ==
    IF s = <<>> THEN <<i>>
    ELSE IF KeyLess(key(ts[i]), key(ts[Head(s)])) THEN <<i>> \o s
    ELSE <<Head(s)>> \o InsertByKey(ts, i, Tail(s))

RECURSIVE SortByKey(_, _)
SortByKey(ts, s) ==
    IF s = <<>> THEN <<>>
    ELSE InsertByKey(ts, s[Len(s)], SortByKey(ts, SubSeq(s, 1, Len(s) - 1)))

\* a list comprehension over the task list: the positions 1..n that are in S,
\* in list order
RECURSIVE SelectPos(_, _)
SelectPos(n, S) ==
    IF n = 0 THEN <<>>
    ELSE IF n \in S THEN Append(SelectPos(n - 1, S), n)
    ELSE SelectPos(n - 1, S)

\* a plausible slip: the dependencies of a pending task are not looked at
IsPendingReady_no_deps(t, done) ==
    t.status = "pending"

IsPendingReady(t, done) ==
    t.status = "pending" /\ deps_completed(t, done)

\* a plausible slip: <= for <
IsRetryReady_le(t, done) ==
    /\ t.status = "failed"
    /\ task_attempts(t) <= task_max_attempts(t)
    /\ deps_completed(t, done)

\* a plausible slip: the retry limit is not looked at
IsRetryReady_no_limit(t, done) ==
    /\ t.status = "failed"
    /\ deps_completed(t, done)

IsRetryReady(t, done) ==
    /\ t.status = "failed"
    /\ task_attempts(t) < task_max_attempts(t)
    /\ deps_completed(t, done)

eligible_tasks(ts) ==
    LET done == completed_ids(ts)
        P == {i \in DOMAIN ts : IsPendingReady(ts[i], done)}
        R == {i \in DOMAIN ts : IsRetryReady(ts[i], done)}
    IN  [pending |-> SortByKey(ts, SelectPos(Len(ts), P)),
         retry   |-> SortByKey(ts, SelectPos(Len(ts), R))]

\* a plausible slip: retries first
pick_next_retry_first(pending, retry) ==
    IF retry # <<>> THEN retry[1]
    ELSE IF pending # <<>> THEN pending[1]
    ELSE 0

pick_next(pending, retry) ==
    IF pending # <<>> THEN pending[1]
    ELSE IF retry # <<>> THEN retry[1]
    ELSE 0

----------------------------------------------------------------------------
(* Lease reaping *)

\* f"[SESSION_TIMEOUT] Lease expired (claimed_by={t.get('claimed_by')})"
TimeoutMessage(t) ==
    <<"[SESSION_TIMEOUT] Lease expired (claimed_by=",
      IF t.claimed_by = NoKey THEN "None" ELSE t.claimed_by,
      ")">>

\* a plausible slip: a lease expiring exactly at now is not yet expired
LeaseExpired_strict(t, now) ==
    /\ t.status = "in_progress"
    /\ parse_iso(t.lease_expires_at) # NoTime
    /\ parse_iso(t.lease_expires_at).t < now

\* the guards of the loop body: in_progress, and exp neither None nor > now
LeaseExpired(t, now) ==
    /\ t.status = "in_progress"
    /\ parse_iso(t.lease_expires_at) # NoTime
    /\ ~(parse_iso(t.lease_expires_at).t > now)

\* a plausible slip: the log is overwritten, not appended to
ReapOne_overwrite(t, now) ==
    IF ~LeaseExpired(t, now) THEN t
    ELSE [t EXCEPT
            !.attempts = IntV(task_attempts(t) + 1),
            !.error_log = LogList(<<TimeoutMessage(t)>>),
            !.status = "failed",
            !.claimed_by = NoKey,
            !.lease_expires_at = NoLease,
            !.claimed_at = NoKey]

\* a plausible slip: the loop body stops after the log entry, so the status
\* and the lease fields stay as they were
ReapOne_counts_only(t, now) ==
    IF ~LeaseExpired(t, now) THEN t
    ELSE [t EXCEPT
            !.attempts = IntV(task_attempts(t) + 1),
            !.error_log = IF t.error_log.k = "list"
                          THEN LogList(Append(t.error_log.v, TimeoutMessage(t)))
                          ELSE LogList(<<TimeoutMessage(t)>>)]

\* a plausible slip: claimed_at is not removed
ReapOne_keeps_claimed_at(t, now) ==
    IF ~LeaseExpired(t, now) THEN t
    ELSE [t EXCEPT
            !.attempts = IntV(task_attempts(t) + 1),
            !.error_log = IF t.error_log.k = "list"
                          THEN LogList(Append(t.error_log.v, TimeoutMessage(t)))
                          ELSE LogList(<<TimeoutMessage(t)>>),
            !.status = "failed",
            !.claimed_by = NoKey,
            !.lease_expires_at = NoLease]

\* a plausible slip: attempts is set to 1, not incremented
ReapOne_sets_one(t, now) ==
    IF ~LeaseExpired(t, now) THEN t
    ELSE [t EXCEPT
            !.attempts = IntV(1),
            !.error_log = IF t.error_log.k = "list"
                          THEN LogList(Append(t.error_log.v, TimeoutMessage(t)))
                          ELSE LogList(<<TimeoutMessage(t)>>),
            !.status = "failed",
            !.claimed_by = NoKey,
            !.lease_expires_at = NoLease,
            !.claimed_at = NoKey]

ReapOne(t, now) ==
    IF ~LeaseExpired(t, now) THEN t
    ELSE [t EXCEPT
            !.attempts = IntV(task_attempts(t) + 1),
            !.error_log = IF t.error_log.k = "list"
                          THEN LogList(Append(t.error_log.v, TimeoutMessage(t)))
                          ELSE LogList(<<TimeoutMessage(t)>>),
            !.status = "failed",
            !.claimed_by = NoKey,
            !.lease_expires_at = NoLease,
            !.claimed_at = NoKey]

reap_stale_leases(ts, now) ==
    [tasks   |-> [i \in DOMAIN ts |-> ReapOne(ts[i], now)],
     changed |-> \E i \in DOMAIN ts : LeaseExpired(ts[i], now)]

----------------------------------------------------------------------------
(* JSON I/O: atomic_write_json.  A file is the version of the document it  *)
(* holds and how much of it has reached the file; one call of              *)
(* atomic_write_json runs at a time, and the writing process can crash     *)
(* between any two system calls, leaving the files as they are.            *)

NoFile == [ver |-> 0, part |-> "none"]
Empty == [ver |-> 0, part |-> "empty"]
Partial(v) == [ver |-> v, part |-> "partial"]
Full(v) == [ver |-> v, part |-> "full"]

InitStoreVars ==
    /\ doc = Full(0)
    /\ tmp = NoFile
    /\ bak = NoFile
    /\ wpc = "idle"
    /\ data = 0
    /\ prev = Full(0)
    /\ readDoc = Full(0)

\* a call atomic_write_json(path, data), by a process that has loaded the
\* document; data is a new version of the document
StartWrite ==
    /\ wpc \in {"idle", "done", "crashed"}
    /\ doc.ver < MaxWrites
    /\ data' = doc.ver + 1
    /\ prev' = doc
    /\ wpc' = "copy_open"
    /\ UNCHANGED <<doc, tmp, bak, readDoc>>
    /\ UNCHANGED exceptStore

\* a plausible slip: the backup is made by moving the document to .bak
CopyOpen_move ==
    /\ wpc = "copy_open"
    /\ bak' = doc
    /\ doc' = NoFile
    /\ wpc' = "tmp_open"
    /\ UNCHANGED <<tmp, data, prev, readDoc>>
    /\ UNCHANGED exceptStore

\* shutil.copy2(path, bak): opens the document for reading and .bak for
\* writing, which creates or truncates .bak ...
CopyOpen ==
    /\ wpc = "copy_open"
    /\ bak' = Empty
    /\ wpc' = "copy_data"
    /\ UNCHANGED <<doc, tmp, data, prev, readDoc>>
    /\ UNCHANGED exceptStore

\* ... and copies the document's bytes into it, a block at a time
CopyData ==
    /\ wpc = "copy_data"
    /\ \/ bak = Empty /\ bak' = Partial(doc.ver) /\ wpc' = "copy_data"
       \/ bak' = Full(doc.ver) /\ wpc' = "tmp_open"
    /\ UNCHANGED <<doc, tmp, data, prev, readDoc>>
    /\ UNCHANGED exceptStore

\* tmp.write_text(...): opens .tmp for writing, which creates or truncates it ...
TmpOpen ==
    /\ wpc = "tmp_open"
    /\ tmp' = Empty
    /\ wpc' = "tmp_write"
    /\ UNCHANGED <<doc, bak, data, prev, readDoc>>
    /\ UNCHANGED exceptStore

\* ... and writes the JSON text, which reaches the file in one or more parts
TmpWrite ==
    /\ wpc = "tmp_write"
    /\ \/ tmp = Empty /\ tmp' = Partial(data) /\ wpc' = "tmp_write"
       \/ tmp' = Full(data) /\ wpc' = "replace"
    /\ UNCHANGED <<doc, bak, data, prev, readDoc>>
    /\ UNCHANGED exceptStore

\* os.replace(tmp, path): the document path names the .tmp file from now on
Replace ==
    /\ wpc = "replace"
    /\ doc' = tmp
    /\ tmp' = NoFile
    /\ wpc' = "done"
    /\ UNCHANGED <<bak, data, prev, readDoc>>
    /\ UNCHANGED exceptStore

\* the writing process dies between two system calls
Crash ==
    /\ wpc \in {"copy_open", "copy_data", "tmp_open", "tmp_write", "replace"}
    /\ wpc' = "crashed"
    /\ UNCHANGED <<doc, tmp, bak, data, prev, readDoc>>
    /\ UNCHANGED exceptStore

\* another process reads the document path (load_json's open and read)
ReadDoc ==
    /\ readDoc' = doc
    /\ UNCHANGED <<doc, tmp, bak, wpc, data, prev>>
    /\ UNCHANGED exceptStore

NextStore ==
    \/ StartWrite
    \/ CopyOpen
    \/ CopyData
    \/ TmpOpen
    \/ TmpWrite
    \/ Replace
    \/ Crash
    \/ ReadDoc

----------------------------------------------------------------------------
(* Lock primitives (mkdir-based).  Each process is one hook invocation: it  *)
(* calls acquire_lock once, release_lock if it got the lock, and exits; it  *)
(* can also be killed while it holds the lock.  Every step is one system    *)
(* call on the lock path, so the steps of different processes interleave.   *)
(*                                                                          *)
(* Processes run at arbitrary speeds, so a comparison of time.time() with   *)
(* an instant that lies in the future when it is set (the deadline, the end *)
(* of the grace window) can come out either way at any later step: it is a  *)
(* choice of the step.  What the model keeps of missing_pid_since is        *)
(* whether it is set; on the step that sets it no time has elapsed.         *)

\* the hook processes; a process's pid is its number, 0 is no pid / None
Procs == {1, 2, 3}

\* the lock path holds no directory
NoDir == [inst |-> 0, pid |-> 0]

\* _pid_alive: os.kill(pid, 0) succeeds iff the process exists
pid_alive(n) == pc[n] \notin {"gone", "killed"}

\* _read_pid: None (0) when the directory or its pid file is missing
read_pid == lock.pid

InitLockVars ==
    /\ lock = NoDir
    /\ pc = [p \in Procs |-> "idle"]
    /\ missing_pid_since = [p \in Procs |-> FALSE]
    /\ pid = [p \in Procs |-> 0]
    /\ seen = [p \in Procs |-> 0]
    /\ stale = {}

\* deadline = time.time() + timeout_seconds; missing_pid_since = None
Call(p) ==
    /\ pc[p] = "idle"
    /\ pc' = [pc EXCEPT ![p] = "mkdir"]
    /\ missing_pid_since' = [missing_pid_since EXCEPT ![p] = FALSE]
    /\ UNCHANGED <<lock, pid, seen, stale>>
    /\ UNCHANGED exceptLock

\* lockdir.mkdir(mode=0o700): creates the directory or raises FileExistsError.
\* A directory is named after the process that created it.
Mkdir(p) ==
    /\ pc[p] = "mkdir"
    /\ IF lock = NoDir
       THEN /\ lock' = [inst |-> p, pid |-> 0]
            /\ pc' = [pc EXCEPT ![p] = "write_pid"]
            /\ missing_pid_since' = [missing_pid_since EXCEPT ![p] = FALSE]
       ELSE /\ pc' = [pc EXCEPT ![p] = "read_pid"]
            /\ UNCHANGED <<lock, missing_pid_since>>
    /\ UNCHANGED <<pid, seen, stale>>
    /\ UNCHANGED exceptLock

\* (lockdir / "pid").write_text(str(os.getpid())); return.  The file is
\* written into whatever directory is at the lock path now; with no directory
\* there FileNotFoundError leaves acquire_lock (only FileExistsError is caught).
WritePid(p) ==
    /\ pc[p] = "write_pid"
    /\ IF lock = NoDir
       THEN /\ pc' = [pc EXCEPT ![p] = "error"]
            /\ UNCHANGED lock
       ELSE /\ lock' = [lock EXCEPT !.pid = p]
            /\ pc' = [pc EXCEPT ![p] = "held"]
    /\ UNCHANGED <<missing_pid_since, pid, seen, stale>>
    /\ UNCHANGED exceptLock

\* pid = _read_pid(lockdir)
ReadPid(p) ==
    /\ pc[p] = "read_pid"
    /\ pid' = [pid EXCEPT ![p] = read_pid]
    /\ seen' = [seen EXCEPT ![p] = lock.inst]
    /\ pc' = [pc EXCEPT ![p] = "check"]
    /\ UNCHANGED <<lock, missing_pid_since, stale>>
    /\ UNCHANGED exceptLock

\* if time.time() >= deadline: raise TimeoutError(...); time.sleep(0.05); continue
WaitOrTimeout(p, late) ==
    IF late
    THEN /\ pc' = [pc EXCEPT ![p] = "timeout"]
         /\ missing_pid_since' = [missing_pid_since EXCEPT ![p] = FALSE]
    ELSE /\ pc' = [pc EXCEPT ![p] = "mkdir"]
         /\ UNCHANGED missing_pid_since

\* the branches on pid.  late: time.time() >= deadline; over: the grace
\* window, time.time() - missing_pid_since < 1.0, has ended.
Check(p, late, over) ==
    /\ pc[p] = "check"
    /\ IF pid[p] = 0
       THEN IF missing_pid_since[p] /\ over
            THEN /\ pc' = [pc EXCEPT ![p] = "rename"]
                 /\ UNCHANGED <<missing_pid_since, pid, seen>>
            ELSE /\ IF late
                    THEN /\ pc' = [pc EXCEPT ![p] = "timeout"]
                         /\ missing_pid_since' = [missing_pid_since EXCEPT ![p] = FALSE]
                    ELSE /\ pc' = [pc EXCEPT ![p] = "mkdir"]
                         /\ missing_pid_since' = [missing_pid_since EXCEPT ![p] = TRUE]
                 /\ pid' = [pid EXCEPT ![p] = 0]
                 /\ seen' = [seen EXCEPT ![p] = 0]
       ELSE IF pid_alive(pid[p])
            THEN /\ IF late
                    THEN pc' = [pc EXCEPT ![p] = "timeout"]
                    ELSE pc' = [pc EXCEPT ![p] = "mkdir"]
                 /\ missing_pid_since' = [missing_pid_since EXCEPT ![p] = FALSE]
                 /\ pid' = [pid EXCEPT ![p] = 0]
                 /\ seen' = [seen EXCEPT ![p] = 0]
            ELSE /\ pc' = [pc EXCEPT ![p] = "rename"]
                 /\ missing_pid_since' = [missing_pid_since EXCEPT ![p] = FALSE]
                 /\ UNCHANGED <<pid, seen>>
    /\ UNCHANGED <<lock, stale>>
    /\ UNCHANGED exceptLock

\* lockdir.rename(stale): moves whatever directory is at the lock path now
RenameMoves(p) == lock # NoDir

\* lockdir.rename(stale); shutil.rmtree(stale); missing_pid_since = None;
\* or, when the rename raises, the deadline check and the retry.  The removal
\* of the renamed directory touches a name no other process uses.
Rename(p, late) ==
    /\ pc[p] = "rename"
    /\ IF RenameMoves(p)
       THEN /\ lock' = NoDir
            /\ stale' = stale \cup {lock.inst}
            /\ missing_pid_since' = [missing_pid_since EXCEPT ![p] = FALSE]
            /\ pc' = [pc EXCEPT ![p] = "mkdir"]
       ELSE /\ WaitOrTimeout(p, late)
            /\ UNCHANGED <<lock, stale>>
    /\ pid' = [pid EXCEPT ![p] = 0]
    /\ seen' = [seen EXCEPT ![p] = 0]
    /\ UNCHANGED exceptLock

\* a plausible slip: ignore_errors is left out, so a missing directory raises
ReleaseUnlink_strict(p) ==
    /\ pc[p] = "held"
    /\ IF lock = NoDir
       THEN /\ pc' = [pc EXCEPT ![p] = "error"]
            /\ UNCHANGED lock
       ELSE /\ lock' = [lock EXCEPT !.pid = 0]
            /\ pc' = [pc EXCEPT ![p] = "rmdir"]
    /\ UNCHANGED <<missing_pid_since, pid, seen, stale>>
    /\ UNCHANGED exceptLock

\* release_lock: shutil.rmtree(lockdir, ignore_errors=True) opens the
\* directory at the lock path and unlinks its pid file; with no directory
\* there the error is ignored and nothing more is done ...
ReleaseUnlink(p) ==
    /\ pc[p] = "held"
    /\ IF lock = NoDir
       THEN /\ pc' = [pc EXCEPT ![p] = "released"]
            /\ UNCHANGED lock
       ELSE /\ lock' = [lock EXCEPT !.pid = 0]
            /\ pc' = [pc EXCEPT ![p] = "rmdir"]
    /\ UNCHANGED <<missing_pid_since, pid, seen, stale>>
    /\ UNCHANGED exceptLock

\* ... and then removes the directory at the lock path by name, which fails
\* (and is ignored) when that directory is missing or holds a pid file.
ReleaseRmdir(p) ==
    /\ pc[p] = "rmdir"
    /\ lock' = IF lock.pid = 0 THEN NoDir ELSE lock
    /\ pc' = [pc EXCEPT ![p] = "released"]
    /\ UNCHANGED <<missing_pid_since, pid, seen, stale>>
    /\ UNCHANGED exceptLock

\* the process is killed while it holds the lock
Kill(p) ==
    /\ pc[p] = "held"
    /\ pc' = [pc EXCEPT ![p] = "killed"]
    /\ UNCHANGED <<lock, missing_pid_since, pid, seen, stale>>
    /\ UNCHANGED exceptLock

\* the process ends after its call
Exit(p) ==
    /\ pc[p] \in {"released", "timeout", "error"}
    /\ pc' = [pc EXCEPT ![p] = "gone"]
    /\ UNCHANGED <<lock, missing_pid_since, pid, seen, stale>>
    /\ UNCHANGED exceptLock

\* the next statement of acquire_lock in process p
AcquireStep(p) ==
    \/ Mkdir(p)
    \/ WritePid(p)
    \/ ReadPid(p)
    \/ \E late, over \in BOOLEAN : Check(p, late, over)
    \/ \E late \in BOOLEAN : Rename(p, late)

NextLock ==
    \/ \E p \in Procs : Call(p)
    \/ \E p \in Procs : AcquireStep(p)
    \/ \E p \in Procs : ReleaseUnlink(p)
    \/ \E p \in Procs : ReleaseRmdir(p)
    \/ \E p \in Procs : Kill(p)
    \/ \E p \in Procs : Exit(p)

\* nothing returned yet
NoResult ==
    [raised |-> "none", tasks |-> <<>>,
     field |-> [k |-> "absent", truthy |-> FALSE, v |-> <<>>]]

\* no document is being loaded
InitParseVars ==
    /\ file = [k |-> "object", tasks |-> [k |-> "absent", truthy |-> FALSE, v |-> <<>>]]
    /\ state = NoResult
    /\ parsed = NoResult
    /\ ppc = "idle"

\* no hook process has read its standard input
NoPayload == [raised |-> "unread", empty |-> TRUE, session |-> ""]

InitPayloadVars ==
    /\ stdin = [content |-> [k |-> "empty", session |-> ""], strict |-> FALSE]
    /\ payload = NoPayload
    /\ rc = 0

\* the do workflow has not been set up and its Stop hook has not run
NoTaskJson == [k |-> "missing", status |-> NoKey, current_phase |-> Absent,
               max_phases |-> Absent]

InitDoVars ==
    /\ currentTask = "missing"
    /\ taskJson = NoTaskJson
    /\ doOut = [decision |-> "none", rc |-> 0]

\* the session ids of the model
Sessions == {"s1", "s2"}

\* nothing printed: the stop is allowed
Silent == [decision |-> "allow", iter |-> 0, max |-> 0]

\* the reflection hook has not run; the harness has drained
InitReflectVars ==
    /\ hasRoot = TRUE
    /\ harnessActive = FALSE
    /\ reflectMarker = FALSE
    /\ maxEnv = Absent
    /\ rcounter = [s \in Sessions |-> Absent]
    /\ out = [decision |-> "none", iter |-> 0, max |-> 0]
    /\ sid = ""
    /\ issued = [s \in Sessions |-> 0]

\* .harness-stop-counter does not exist
NoCounter == [blocks |-> 0, completed |-> 0, file |-> FALSE]

\* .harness-stop-counter holds "b,c"
Counter(b, c) == [blocks |-> b, completed |-> c, file |-> TRUE]

\* the Stop hook has not run
InitStopVars ==
    /\ corrupt = FALSE
    /\ stopCounter = NoCounter
    /\ decision = "none"
    /\ warn = FALSE
    /\ flag = FALSE
    /\ cntBefore = NoCounter
    /\ allActive = TRUE
    /\ mode = NoKey
    /\ limitReached = FALSE
    /\ workerId = ""

\* no worker is claiming
InitClaimVars ==
    /\ stage = [p \in Procs |-> "new"]
    /\ chosen = [p \in Procs |-> 0]
    /\ local = [p \in Procs |-> <<>>]
    /\ claimers = <<>>

\* no task list is being operated on
InitNoTasks ==
    /\ tasks = <<>>
    /\ before = <<>>
    /\ pendingReady = <<>>
    /\ retryReady = <<>>
    /\ nextTask = 0
    /\ changed = FALSE
    /\ reapNow = 0
    /\ op = "init"

InitLock ==
    /\ InitLockVars
    /\ InitParseVars
    /\ InitPayloadVars
    /\ InitDoVars
    /\ InitNoTasks
    /\ InitStoreVars
    /\ InitClaimVars
    /\ InitStopVars
    /\ InitReflectVars

InitStore ==
    /\ InitStoreVars
    /\ InitNoTasks
    /\ InitLockVars
    /\ InitParseVars
    /\ InitPayloadVars
    /\ InitDoVars
    /\ InitClaimVars
    /\ InitStopVars
    /\ InitReflectVars

SpecStore == InitStore /\ [][NextStore]_vars

SpecLock == InitLock /\ [][NextLock]_vars

\* a running process executes its next statement
SpecLockFair ==
    /\ InitLock
    /\ [][NextLock]_vars
    /\ \A p \in Procs : WF_vars(AcquireStep(p))

\* the statement of acquire_lock in which process p raises TimeoutError
Expire(p) == AcquireStep(p) /\ pc'[p] = "timeout"

\* time passes: the deadline is fixed when acquire_lock is called and every
\* iteration that tests it has slept, so a process that comes to a deadline
\* test again and again finds the deadline passed at one of them
SpecLockTimed ==
    /\ InitLock
    /\ [][NextLock]_vars
    /\ \A p \in Procs : WF_vars(AcquireStep(p))
    /\ \A p \in Procs : SF_vars(Expire(p))

----------------------------------------------------------------------------
(* release_lock on its own.  It takes the lock path and nothing else, so a  *)
(* process can call it whatever is at the path, and call it again.          *)

\* what can be at the lock path: nothing, or a directory with or without a
\* pid file
LockDirs ==
    {NoDir} \cup {[inst |-> i, pid |-> n] : i \in Procs, n \in {0} \cup Procs}

\* the second call of release_lock by a process: the same statements
ReleaseUnlinkAgain(p) ==
    /\ pc[p] = "released"
    /\ IF lock = NoDir
       THEN /\ pc' = [pc EXCEPT ![p] = "released_twice"]
            /\ UNCHANGED lock
       ELSE /\ lock' = [lock EXCEPT !.pid = 0]
            /\ pc' = [pc EXCEPT ![p] = "rmdir_again"]
    /\ UNCHANGED <<missing_pid_since, pid, seen, stale>>
    /\ UNCHANGED exceptLock

ReleaseRmdirAgain(p) ==
    /\ pc[p] = "rmdir_again"
    /\ lock' = IF lock.pid = 0 THEN NoDir ELSE lock
    /\ pc' = [pc EXCEPT ![p] = "released_twice"]
    /\ UNCHANGED <<missing_pid_since, pid, seen, stale>>
    /\ UNCHANGED exceptLock

\* the processes marked held are about to call release_lock; those marked
\* released have called it before, and the lock may have been taken since
InitRelease ==
    /\ lock \in LockDirs
    /\ pc \in [Procs -> {"idle", "held", "released"}]
    /\ missing_pid_since = [p \in Procs |-> FALSE]
    /\ pid = [p \in Procs |-> 0]
    /\ seen = [p \in Procs |-> 0]
    /\ stale = {}
    /\ InitParseVars
    /\ InitPayloadVars
    /\ InitDoVars
    /\ InitNoTasks
    /\ InitStoreVars
    /\ InitClaimVars
    /\ InitStopVars
    /\ InitReflectVars

NextRelease ==
    \/ \E p \in Procs : ReleaseUnlink(p)
    \/ \E p \in Procs : ReleaseRmdir(p)
    \/ \E p \in Procs : ReleaseUnlinkAgain(p)
    \/ \E p \in Procs : ReleaseRmdirAgain(p)

SpecRelease == InitRelease /\ [][NextRelease]_vars

----------------------------------------------------------------------------
(* The task lists the operations are applied to *)

Task(id, status, priority, deps, attempts, max, by, lease, log) ==
    [id |-> id, status |-> status, priority |-> priority, depends_on |-> deps,
     attempts |-> attempts, max_attempts |-> max, claimed_by |-> by,
     lease_expires_at |-> lease, claimed_at |-> IF by = NoKey THEN NoKey ELSE "t0",
     error_log |-> log]

\* ids "1", "10", "2" and "9" as character codes
Id1 == <<1>>
Id10 == <<1, 0>>
Id2 == <<2>>
Id9 == <<9>>

OldError == <<"boom">>

\* tasks that differ in what eligibility and ordering read: status,
\* dependencies, attempts, max_attempts, priority and id
EligPool ==
    { Task(Id1,  "pending",     "P2", DepList(<<>>),         Absent,  Absent,  NoKey, NoLease, NoLog),
      Task(Id2,  "pending",     "P0", NoDeps,                Absent,  Absent,  NoKey, NoLease, NoLog),
      Task(Id10, "pending",     "P2", DepList(<<Id1>>),      IntV(0), IntV(3), NoKey, NoLease, NoLog),
      Task(Id10, "pending",     "P0", DepList(<<Id1, Id9>>), Absent,  Absent,  NoKey, NoLease, NoLog),
      Task(Id2,  "pending",     "P1", DepOther,              Absent,  Absent,  NoKey, NoLease, NoLog),
      Task(Id1,  "completed",   "P1", NoDeps,                IntV(1), Absent,  NoKey, NoLease, NoLog),
      Task(Id1,  "failed",      "P1", DepList(<<>>),         IntV(1), IntV(3), NoKey, NoLease, LogList(<<OldError>>)),
      Task(Id2,  "failed",      "P2", DepList(<<Id1>>),      IntV(3), Absent,  NoKey, NoLease, NoLog),
      Task(Id2,  "failed",      "",   NoDeps,                Bad,     Bad,     NoKey, NoLease, LogOther),
      Task(Id10, "failed",      "P7", DepList(<<>>),         IntV(0), IntV(0), NoKey, NoLease, NoLog),
      Task(Id10, "failed",      "",   NoDeps,                Absent,  IntV(1), NoKey, NoLease, NoLog),
      Task(Id1,  "failed",      "P0", DepList(<<Id2, Id10>>), IntV(2), Absent, NoKey, NoLease, NoLog),
      Task(Id2,  "completed",   "P2", DepList(<<Id9>>),      Absent,  Absent,  NoKey, NoLease, NoLog),
      Task(Id10, "",            "P1", NoDeps,                Absent,  Absent,  NoKey, NoLease, NoLog),
      Task(Id2,  "in_progress", "P0", DepList(<<Id1>>),      IntV(2), Absent,  "w1",  IsoLease(1, 0), LogList(<<OldError>>)) }

\* tasks that differ in what lease reaping reads: status, lease_expires_at,
\* attempts, claimed_by and error_log
ReapPool ==
    { Task(Id2,  "in_progress", "P0", DepList(<<Id1>>),      IntV(2), Absent,  "w1",  IsoLease(1, 0), LogList(<<OldError>>)),
      Task(Id10, "in_progress", "P1", NoDeps,                Absent,  IntV(1), NoKey, IsoLease(2, 1), NoLog),
      Task(Id1,  "in_progress", "P2", NoDeps,                Bad,     Absent,  "w2",  IsoLease(2, 0), LogOther),
      Task(Id1,  "in_progress", "P0", NoDeps,                IntV(0), Absent,  "w1",  BadLease, NoLog),
      Task(Id2,  "in_progress", "",   NoDeps,                IntV(1), Absent,  "w2",  NoLease, LogList(<<>>)),
      Task(Id10, "in_progress", "P0", NoDeps,                IntV(0), IntV(1), "w2",  IsoLease(0, 0), LogList(<<>>)),
      Task(Id9,  "in_progress", "P1", NoDeps,                IntV(1), Absent,  "w2",  IsoLease(1, 0), NoLog),
      Task(Id9,  "",            "P0", NoDeps,                Absent,  Absent,  "w1",  IsoLease(0, 0), NoLog),
      Task(Id1,  "completed",   "P1", NoDeps,                IntV(1), Absent,  NoKey, NoLease, NoLog),
      Task(Id1,  "failed",      "P1", DepList(<<>>),         IntV(1), IntV(3), NoKey, NoLease, LogList(<<OldError>>)),
      Task(Id2,  "pending",     "P0", NoDeps,                Absent,  Absent,  "w1",  IsoLease(0, 0), NoLog) }

ListsOver(pool) == UNION {[1..n -> pool] : n \in 0..MaxTasks}

InitOver(pool) ==
    /\ tasks \in ListsOver(pool)
    /\ before = tasks
    /\ pendingReady = <<>>
    /\ retryReady = <<>>
    /\ nextTask = 0
    /\ changed = FALSE
    /\ reapNow = 0
    /\ op = "init"
    /\ InitLockVars
    /\ InitParseVars
    /\ InitPayloadVars
    /\ InitDoVars
    /\ InitStoreVars
    /\ InitClaimVars
    /\ InitStopVars
    /\ InitReflectVars

InitTasks == InitOver(EligPool)

InitReap == InitOver(ReapPool)

\* One invocation reaps stale leases, computes eligibility on the result and
\* picks the next task.
\* pending, retry = eligible_tasks(tasks)
Eligible ==
    /\ op \in {"init", "reap"}
    /\ pendingReady' = eligible_tasks(tasks).pending
    /\ retryReady' = eligible_tasks(tasks).retry
    /\ before' = tasks
    /\ op' = "eligible"
    /\ UNCHANGED <<tasks, nextTask, changed, reapNow>>
    /\ UNCHANGED exceptTasks

\* next = pick_next(pending, retry)
PickNext ==
    /\ op = "eligible"
    /\ nextTask' = pick_next(pendingReady, retryReady)
    /\ before' = tasks
    /\ op' = "pick"
    /\ UNCHANGED <<tasks, pendingReady, retryReady, changed, reapNow>>
    /\ UNCHANGED exceptTasks

\* changed = reap_stale_leases(tasks, now)
Reap(now) ==
    /\ op \in {"init", "reap"}
    /\ tasks' = reap_stale_leases(tasks, now).tasks
    /\ changed' = reap_stale_leases(tasks, now).changed
    /\ reapNow' = now
    /\ before' = tasks
    /\ op' = "reap"
    /\ UNCHANGED <<pendingReady, retryReady, nextTask>>
    /\ UNCHANGED exceptTasks

NextTasks ==
    \/ Eligible
    \/ PickNext
    \/ \E now \in 0..MaxNow : Reap(now)

SpecTasks == InitTasks /\ [][NextTasks]_vars

SpecReap == InitReap /\ [][NextTasks]_vars

----------------------------------------------------------------------------
(* Claiming a task (Lease Manager, claim).  A worker reads the document    *)
(* without the lock and chooses the next eligible task; it then takes the  *)
(* lock, re-reads the document, commits the claim only if the task is      *)
(* still eligible, writes the document back and releases the lock.         *)

WorkerName(p) == <<"w1", "w2", "w3">>[p]

\* the document the workers claim from
ClaimTasks ==
    << Task(Id1, "pending", "P0", NoDeps, Absent, Absent, NoKey, NoLease, NoLog),
       Task(Id2, "failed", "P1", DepList(<<>>), IntV(1), IntV(3), NoKey, NoLease,
            LogList(<<OldError>>)) >>

\* claim(task, workerId, ttl)
claim(t, w) ==
    [t EXCEPT !.status = "in_progress",
              !.claimed_by = w,
              !.lease_expires_at = IsoLease(1, 0),
              !.claimed_at = "t0"]

\* task i of list ts is in one of the two eligibility lists
EligibleAt(ts, i) ==
    \/ InSeq(i, eligible_tasks(ts).pending)
    \/ InSeq(i, eligible_tasks(ts).retry)

\* the unlocked read: nextTask over the eligibility of the current document
Choose(p) ==
    /\ pc[p] = "idle"
    /\ stage[p] = "new"
    /\ chosen' = [chosen EXCEPT
                    ![p] = pick_next(eligible_tasks(tasks).pending,
                                     eligible_tasks(tasks).retry)]
    /\ stage' = [stage EXCEPT ![p] = IF chosen'[p] = 0 THEN "none" ELSE "chosen"]
    /\ UNCHANGED <<local, claimers>>
    /\ UNCHANGED <<taskVars, lockVars, storeVars, stopVars, reflectVars, parseVars,
                   payloadVars, doVars>>

\* the worker calls acquire_lock
Acquire(p) ==
    /\ stage[p] = "chosen"
    /\ Call(p)

\* under the lock: re-read the document
Reread(p) ==
    /\ pc[p] = "held"
    /\ stage[p] = "chosen"
    /\ local' = [local EXCEPT ![p] = tasks]
    /\ stage' = [stage EXCEPT ![p] = "reread"]
    /\ UNCHANGED <<chosen, claimers>>
    /\ UNCHANGED <<taskVars, lockVars, storeVars, stopVars, reflectVars, parseVars,
                   payloadVars, doVars>>

\* under the lock: re-check the status and write the claim back, or give up
Commit(p) ==
    /\ pc[p] = "held"
    /\ stage[p] = "reread"
    /\ IF EligibleAt(local[p], chosen[p])
       THEN /\ tasks' = [local[p] EXCEPT
                           ![chosen[p]] = claim(local[p][chosen[p]], WorkerName(p))]
            /\ claimers' = [claimers EXCEPT ![chosen[p]] = @ \cup {p}]
            /\ stage' = [stage EXCEPT ![p] = "claimed"]
       ELSE /\ stage' = [stage EXCEPT ![p] = "lost"]
            /\ UNCHANGED <<tasks, claimers>>
    /\ UNCHANGED <<chosen, local>>
    /\ UNCHANGED <<before, pendingReady, retryReady, nextTask, changed, reapNow, op>>
    /\ UNCHANGED <<lockVars, storeVars, stopVars, reflectVars, parseVars,
                   payloadVars, doVars>>

\* the worker calls release_lock when it is done with the document
Release(p) ==
    /\ stage[p] \in {"claimed", "lost"}
    /\ ReleaseUnlink(p)

NextClaim ==
    \/ \E p \in Procs : Choose(p)
    \/ \E p \in Procs : Acquire(p)
    \/ \E p \in Procs : AcquireStep(p)
    \/ \E p \in Procs : Reread(p)
    \/ \E p \in Procs : Commit(p)
    \/ \E p \in Procs : Release(p)
    \/ \E p \in Procs : ReleaseRmdir(p)
    \/ \E p \in Procs : Kill(p)
    \/ \E p \in Procs : Exit(p)

InitClaim ==
    /\ tasks = ClaimTasks
    /\ before = <<>>
    /\ pendingReady = <<>>
    /\ retryReady = <<>>
    /\ nextTask = 0
    /\ changed = FALSE
    /\ reapNow = 0
    /\ op = "init"
    /\ InitLockVars
    /\ InitParseVars
    /\ InitPayloadVars
    /\ InitDoVars
    /\ InitStoreVars
    /\ stage = [p \in Procs |-> "new"]
    /\ chosen = [p \in Procs |-> 0]
    /\ local = [p \in Procs |-> <<>>]
    /\ claimers = [i \in DOMAIN ClaimTasks |-> {}]
    /\ InitStopVars
    /\ InitReflectVars

SpecClaim == InitClaim /\ [][NextClaim]_vars

----------------------------------------------------------------------------
(* The life of a task document.  A plan starts with every task pending and *)
(* unclaimed, its ids distinct.  Workers claim eligible tasks, the outcome *)
(* of a claimed task is signalled from outside (success or failure), and   *)
(* every invocation may reap the leases that have expired.                 *)

\* the workers that claim
LifeWorkers == {"w1"}

\* attempts and max_attempts as the three tasks of a plan may hold them
LifeBudgets ==
    << { <<Absent, Absent>>, <<IntV(0), IntV(0)>> },
       { <<Bad, IntV(2)>>, <<IntV(0), IntV(1)>> },
       { <<IntV(0), IntV(2)>>, <<Absent, IntV(0)>> } >>

\* the dependencies of the three tasks of a plan: none, on each other (in a
\* chain, in a cycle, on itself) and on an id that no task has
LifeDeps ==
    << {NoDeps, DepList(<<Id2>>), DepList(<<Id9>>)},
       {DepList(<<>>), DepList(<<Id1>>)},
       {DepList(<<Id1>>), DepList(<<Id1, Id2>>), DepList(<<Id10>>)} >>

LifeIds == <<Id1, Id2, Id10>>

LifeTask(n, deps, budget) ==
    Task(LifeIds[n], "pending", "P1", deps, budget[1], budget[2], NoKey, NoLease, NoLog)

LifePlans ==
    { <<LifeTask(1, d1, b1), LifeTask(2, d2, b2), LifeTask(3, d3, b3)>> :
        d1 \in LifeDeps[1], d2 \in LifeDeps[2], d3 \in LifeDeps[3],
        b1 \in LifeBudgets[1], b2 \in LifeBudgets[2], b3 \in LifeBudgets[3] }

InitLife ==
    /\ tasks \in LifePlans
    /\ before = tasks
    /\ pendingReady = <<>>
    /\ retryReady = <<>>
    /\ nextTask = 0
    /\ changed = FALSE
    /\ reapNow = 0
    /\ op = "init"
    /\ InitLockVars
    /\ InitParseVars
    /\ InitPayloadVars
    /\ InitDoVars
    /\ InitStoreVars
    /\ InitClaimVars
    /\ InitStopVars
    /\ InitReflectVars

\* a worker claims one of the tasks that eligible_tasks returns for the
\* document
ClaimEligible(i, w) ==
    /\ i \in DOMAIN tasks
    /\ EligibleAt(tasks, i)
    /\ tasks' = [tasks EXCEPT ![i] = claim(tasks[i], w)]
    /\ op' = "claim"
    /\ UNCHANGED <<before, pendingReady, retryReady, nextTask, changed, reapNow>>
    /\ UNCHANGED exceptTasks

\* the external success signal for a claimed task
CompleteTask(i) ==
    /\ i \in DOMAIN tasks
    /\ tasks[i].status = "in_progress"
    /\ tasks' = [tasks EXCEPT ![i] = [@ EXCEPT !.status = "completed",
                                               !.claimed_by = NoKey,
                                               !.lease_expires_at = NoLease,
                                               !.claimed_at = NoKey]]
    /\ op' = "complete"
    /\ UNCHANGED <<before, pendingReady, retryReady, nextTask, changed, reapNow>>
    /\ UNCHANGED exceptTasks

\* the external failure signal for a claimed task: the failure is recorded
FailTask(i) ==
    /\ i \in DOMAIN tasks
    /\ tasks[i].status = "in_progress"
    /\ tasks' = [tasks EXCEPT ![i] = [@ EXCEPT !.status = "failed",
                                               !.attempts = IntV(task_attempts(tasks[i]) + 1),
                                               !.claimed_by = NoKey,
                                               !.lease_expires_at = NoLease,
                                               !.claimed_at = NoKey]]
    /\ op' = "fail"
    /\ UNCHANGED <<before, pendingReady, retryReady, nextTask, changed, reapNow>>
    /\ UNCHANGED exceptTasks

\* changed = reap_stale_leases(tasks, now), at any point of the plan's life
ReapLeases(now) ==
    /\ tasks' = reap_stale_leases(tasks, now).tasks
    /\ changed' = reap_stale_leases(tasks, now).changed
    /\ reapNow' = now
    /\ op' = "reap"
    /\ UNCHANGED <<before, pendingReady, retryReady, nextTask>>
    /\ UNCHANGED exceptTasks

NextLife ==
    \/ \E i \in 1..MaxTasks, w \in LifeWorkers : ClaimEligible(i, w)
    \/ \E i \in 1..MaxTasks : CompleteTask(i)
    \/ \E i \in 1..MaxTasks : FailTask(i)
    \/ \E now \in 0..MaxNow : ReapLeases(now)

SpecLife == InitLife /\ [][NextLife]_vars

\* claims and reaps alone
NextLease ==
    \/ \E i \in 1..MaxTasks, w \in LifeWorkers : ClaimEligible(i, w)
    \/ \E now \in 0..MaxNow : ReapLeases(now)

SpecLease == InitLife /\ [][NextLease]_vars

----------------------------------------------------------------------------
(* Loading and parsing the document (load_json, parse_tasks).  A file       *)
(* content is what json.load makes of it: text that is no JSON, a JSON      *)
(* value that is no object, or an object, of which only the tasks field     *)
(* matters.  A field value carries its kind, whether Python counts it as    *)
(* true, and, for a list, its entries; an entry is a dict or something else.*)

\* an entry of the tasks list that is a dict, and one that is not
DictEntry(id) == [k |-> "dict", id |-> id]
OtherEntry == [k |-> "other", id |-> <<>>]

\* values of the tasks field
FieldAbsent == [k |-> "absent", truthy |-> FALSE, v |-> <<>>]
FieldList(es) == [k |-> "list", truthy |-> es # <<>>, v |-> es]
FieldScalar(kind, truthy) == [k |-> kind, truthy |-> truthy, v |-> <<>>]

\* file contents
NotJson == [k |-> "not json", tasks |-> FieldAbsent]
NonObject(kind) == [k |-> kind, tasks |-> FieldAbsent]
Object(field) == [k |-> "object", tasks |-> field]

Raised(e) == [raised |-> e, tasks |-> <<>>, field |-> FieldAbsent]
Returned(ts) == [raised |-> "none", tasks |-> ts, field |-> FieldAbsent]

\* load_json: json.load raises on text that is no JSON; a value that is no
\* dict raises ValueError; the result keeps the tasks field
load_json_lenient(f) ==
    IF f.k = "not json" THEN Raised("JSONDecodeError")
    ELSE [raised |-> "none", tasks |-> <<>>, field |-> f.tasks]

load_json(f) ==
    IF f.k = "not json" THEN Raised("JSONDecodeError")
    ELSE IF f.k # "object" THEN Raised("ValueError")
    ELSE [raised |-> "none", tasks |-> <<>>, field |-> f.tasks]

\* state.get("tasks") or []
tasks_raw(field) == IF field.truthy THEN field ELSE FieldList(<<>>)

\* parse_tasks: a value that is no list raises ValueError; entries that are
\* no dict are dropped
parse_tasks(field) ==
    IF tasks_raw(field).k # "list" THEN Raised("ValueError")
    ELSE Returned(SelectSeq(tasks_raw(field).v, LAMBDA e : e.k = "dict"))

\* the file contents the model draws from
Entries == {DictEntry(Id1), DictEntry(Id2), OtherEntry}

Fields ==
    {FieldAbsent}
    \cup {FieldScalar(kind, truthy) : kind \in {"str", "int", "dict", "bool"},
                                      truthy \in BOOLEAN}
    \cup {FieldScalar("null", FALSE)}
    \cup {FieldList(es) : es \in UNION {[1..n -> Entries] : n \in 0..MaxTasks}}

Files ==
    {NotJson}
    \cup {NonObject(kind) : kind \in {"list", "str", "int", "null", "bool"}}
    \cup {Object(field) : field \in Fields}

\* state = load_json(path)
Load ==
    /\ ppc = "idle"
    /\ state' = load_json(file)
    /\ ppc' = IF load_json(file).raised = "none" THEN "loaded" ELSE "failed"
    /\ UNCHANGED <<file, parsed>>
    /\ UNCHANGED <<taskVars, lockVars, storeVars, claimVars, stopVars, reflectVars,
                   payloadVars, doVars>>

\* tasks = parse_tasks(state)
Parse ==
    /\ ppc = "loaded"
    /\ parsed' = parse_tasks(state.field)
    /\ ppc' = IF parse_tasks(state.field).raised = "none" THEN "parsed" ELSE "failed"
    /\ UNCHANGED <<file, state>>
    /\ UNCHANGED <<taskVars, lockVars, storeVars, claimVars, stopVars, reflectVars,
                   payloadVars, doVars>>

InitParse ==
    /\ file \in Files
    /\ state = NoResult
    /\ parsed = NoResult
    /\ ppc = "idle"
    /\ InitPayloadVars
    /\ InitDoVars
    /\ InitNoTasks
    /\ InitLockVars
    /\ InitStoreVars
    /\ InitClaimVars
    /\ InitStopVars
    /\ InitReflectVars

NextParse ==
    \/ Load
    \/ Parse

SpecParse == InitParse /\ [][NextParse]_vars

----------------------------------------------------------------------------
(* The Stop hook's safety valve.  The hook is invoked when the host is      *)
(* about to stop; the payload's stop_hook_active says that the host is      *)
(* continuing because of an earlier block.  While the session has work left *)
(* the hook blocks the stop, and it counts the consecutive blocks during    *)
(* which the number of completed tasks did not grow in                      *)
(* .harness-stop-counter.  The session ends with the first allow.  The      *)
(* tasks here carry no lease, so reaping leaves them as they are.           *)

\* the threshold of the safety valve
MAX_CONSECUTIVE_BLOCKS == 10

\* tasks that differ in what the decision reads: status and dependencies
ValvePool ==
    { Task(Id1,  "pending",     "P1", NoDeps,            Absent,  Absent, NoKey, NoLease, NoLog),
      Task(Id2,  "pending",     "P1", DepList(<<Id9>>),  Absent,  Absent, NoKey, NoLease, NoLog),
      Task(Id1,  "completed",   "P1", NoDeps,            IntV(1), Absent, NoKey, NoLease, NoLog),
      Task(Id2,  "in_progress", "P1", NoDeps,            IntV(1), Absent, "w1",  NoLease, NoLog),
      Task(Id10, "failed",      "P1", NoDeps,            IntV(3), Absent, NoKey, NoLease, NoLog) }

\* the number of completed tasks
CompletedCount(ts) == Cardinality({i \in DOMAIN ts : ts[i].status = "completed"})

\* is_concurrent(get_session_config(state))
is_concurrent == mode = "concurrent"

\* an in-progress task holds the worker back: any such task in exclusive
\* mode; in concurrent mode its own task, or any such task when the worker
\* has no identity
InProgressBlocks_any(ts) == \E i \in DOMAIN ts : ts[i].status = "in_progress"

InProgressBlocks(ts) ==
    \E i \in DOMAIN ts :
        /\ ts[i].status = "in_progress"
        /\ is_concurrent /\ workerId # "" => ts[i].claimed_by = workerId

\* every task is completed
AllCompleted(ts) == \A i \in DOMAIN ts : ts[i].status = "completed"

\* a task holds the worker back or can be claimed
WorkLeft(ts) ==
    \/ InProgressBlocks(ts)
    \/ eligible_tasks(ts).pending # <<>>
    \/ eligible_tasks(ts).retry # <<>>

\* the counter after one more block: 1 when the completed count has grown
\* since the counter was written, one more than before otherwise
NextCount_keep_on_progress(c, completed) ==
    IF completed > c.completed
    THEN Counter(c.blocks + 1, completed)
    ELSE Counter(c.blocks + 1, c.completed)

NextCount(c, completed) ==
    IF completed > c.completed
    THEN Counter(1, completed)
    ELSE Counter(c.blocks + 1, c.completed)

\* the valve opens: the count with this invocation has reached the threshold
\* and the host says it is continuing from a block
ValveOpen_after(c, active) == c.blocks > MAX_CONSECUTIVE_BLOCKS /\ active

ValveOpen_any_caller(c, active) == c.blocks >= MAX_CONSECUTIVE_BLOCKS

ValveOpen_never(c, active) == FALSE

ValveOpen(c, active) == c.blocks >= MAX_CONSECUTIVE_BLOCKS /\ active

\* the document cannot be loaded: with stop_hook_active the stop is allowed
\* with a warning, without it the stop is blocked; nothing is written
StopCorrupt_block(active) ==
    /\ decision' = "block"
    /\ warn' = FALSE
    /\ UNCHANGED <<tasks, stopCounter, harnessActive, reflectMarker>>

StopCorrupt(active) ==
    /\ decision' = IF active THEN "allow" ELSE "block"
    /\ warn' = active
    /\ UNCHANGED <<tasks, stopCounter, harnessActive, reflectMarker>>

\* no harness-tasks.json is found or .harness-active does not exist: the
\* hook does nothing
StopInactive_block ==
    /\ decision' = "block"
    /\ warn' = FALSE
    /\ UNCHANGED <<tasks, stopCounter, harnessActive, reflectMarker>>

StopInactive ==
    /\ decision' = "allow"
    /\ warn' = FALSE
    /\ UNCHANGED <<tasks, stopCounter, harnessActive, reflectMarker>>

\* the session limit is reached: the stop is allowed; whether
\* .harness-active stays is not specified
StopLimit ==
    /\ decision' = "allow"
    /\ warn' = FALSE
    /\ harnessActive' \in BOOLEAN
    /\ UNCHANGED <<tasks, stopCounter, reflectMarker>>

\* no work is left: the stop is allowed.  When every task is completed the
\* run has drained: .harness-active is removed and .harness-reflect is
\* created.  Otherwise .harness-reflect is left alone, and whether
\* .harness-active stays is not specified; nor are the markers when the
\* document has no task at all.
StopIdle_always_reflect ==
    /\ decision' = "allow"
    /\ warn' = FALSE
    /\ harnessActive' = FALSE
    /\ reflectMarker' = TRUE
    /\ UNCHANGED <<tasks, stopCounter>>

StopIdle ==
    /\ decision' = "allow"
    /\ warn' = FALSE
    /\ IF tasks = <<>>
       THEN /\ harnessActive' \in BOOLEAN
            /\ reflectMarker' \in {reflectMarker, TRUE}
       ELSE IF AllCompleted(tasks)
       THEN /\ harnessActive' = FALSE
            /\ reflectMarker' = TRUE
       ELSE /\ harnessActive' \in BOOLEAN
            /\ UNCHANGED reflectMarker
    /\ UNCHANGED <<tasks, stopCounter>>

\* work is left: the stop is blocked and counted, unless the valve opens;
\* what the counter file holds after the valve has opened is not specified
StopBusy(active) ==
    LET new == NextCount(stopCounter, CompletedCount(tasks)) IN
    IF ValveOpen(new, active)
    THEN /\ decision' = "allow"
         /\ warn' = TRUE
         /\ stopCounter' \in {stopCounter, new, NoCounter}
         /\ UNCHANGED <<tasks, harnessActive, reflectMarker>>
    ELSE /\ new.blocks <= MaxBlocks
         /\ decision' = "block"
         /\ warn' = FALSE
         /\ stopCounter' = new
         /\ UNCHANGED <<tasks, harnessActive, reflectMarker>>

\* one invocation of the Stop hook
StopHook(active) ==
    /\ decision # "allow"
    /\ flag' = active
    /\ cntBefore' = stopCounter
    /\ allActive' = (allActive /\ active)
    /\ IF ~hasRoot \/ ~harnessActive THEN StopInactive
       ELSE IF corrupt THEN StopCorrupt(active)
       ELSE IF tasks # <<>> /\ AllCompleted(tasks) THEN StopIdle
       ELSE IF limitReached THEN StopLimit
       ELSE IF ~WorkLeft(tasks) THEN StopIdle
       ELSE StopBusy(active)
    /\ UNCHANGED <<corrupt, mode, limitReached, workerId>>
    /\ UNCHANGED <<hasRoot, maxEnv, rcounter, out, sid, issued>>
    /\ UNCHANGED <<before, pendingReady, retryReady, nextTask, changed, reapNow, op>>
    /\ UNCHANGED <<lockVars, storeVars, claimVars, parseVars,
                   payloadVars, doVars>>

\* a worker completes a task between two invocations
Complete(i) ==
    /\ decision # "allow"
    /\ ~corrupt
    /\ tasks[i].status \in {"pending", "in_progress", "failed"}
    /\ tasks' = [tasks EXCEPT ![i].status = "completed"]
    /\ allActive' = TRUE
    /\ UNCHANGED <<corrupt, stopCounter, decision, warn, flag, cntBefore>>
    /\ UNCHANGED <<mode, limitReached, workerId>>
    /\ UNCHANGED <<before, pendingReady, retryReady, nextTask, changed, reapNow, op>>
    /\ UNCHANGED <<lockVars, storeVars, claimVars, reflectVars, parseVars,
                   payloadVars, doVars>>

\* the host re-invokes the hook after a block, with the re-entrancy signal
Reinvoke == StopHook(TRUE)

\* a session starts with a counter file that earlier blocks of the session
\* can have left: no file, or fewer blocks than the threshold
InitStop ==
    /\ corrupt \in BOOLEAN
    /\ tasks \in IF corrupt THEN {<<>>}
                 ELSE UNION {[1..n -> ValvePool] : n \in 0..MaxDecide}
    /\ stopCounter \in {NoCounter} \cup
           {Counter(b, c) : b \in 1..(MAX_CONSECUTIVE_BLOCKS - 1),
                            c \in 0..CompletedCount(tasks)}
    /\ decision = "none"
    /\ warn = FALSE
    /\ flag = FALSE
    /\ cntBefore = stopCounter
    /\ allActive = TRUE
    /\ mode = NoKey
    /\ limitReached = FALSE
    /\ workerId = ""
    /\ hasRoot = TRUE
    /\ harnessActive = TRUE
    /\ reflectMarker = FALSE
    /\ maxEnv = Absent
    /\ rcounter = [s \in Sessions |-> Absent]
    /\ out = [decision |-> "none", iter |-> 0, max |-> 0]
    /\ sid = ""
    /\ issued = [s \in Sessions |-> 0]
    /\ before = tasks
    /\ pendingReady = <<>>
    /\ retryReady = <<>>
    /\ nextTask = 0
    /\ changed = FALSE
    /\ reapNow = 0
    /\ op = "init"
    /\ InitLockVars
    /\ InitParseVars
    /\ InitPayloadVars
    /\ InitDoVars
    /\ InitStoreVars
    /\ InitClaimVars

NextStop ==
    \/ \E active \in BOOLEAN : StopHook(active)
    \/ \E i \in DOMAIN tasks : Complete(i)

SpecStop == InitStop /\ [][NextStop]_vars

\* the host keeps re-invoking the hook and no task is ever completed
SpecStopStuck == InitStop /\ [][Reinvoke]_vars /\ WF_vars(Reinvoke)

\* tasks that differ in what the decision reads: status, dependencies,
\* attempts and claimed_by
DecidePool ==
    { Task(Id1,  "pending",     "P1", NoDeps,            Absent,  Absent,  NoKey, NoLease, NoLog),
      Task(Id2,  "pending",     "P1", DepList(<<Id9>>),  Absent,  Absent,  NoKey, NoLease, NoLog),
      Task(Id1,  "completed",   "P1", NoDeps,            IntV(1), Absent,  NoKey, NoLease, NoLog),
      Task(Id2,  "in_progress", "P1", NoDeps,            IntV(1), Absent,  "w1",  NoLease, NoLog),
      Task(Id9,  "in_progress", "P1", NoDeps,            IntV(1), Absent,  NoKey, NoLease, NoLog),
      Task(Id10, "failed",      "P1", NoDeps,            IntV(3), IntV(3), NoKey, NoLease, NoLog),
      Task(Id10, "failed",      "P1", NoDeps,            IntV(1), IntV(3), NoKey, NoLease, NoLog) }

\* a session of any configuration, with or without the markers, before the
\* Stop hook has blocked
InitDecide ==
    /\ hasRoot \in BOOLEAN
    /\ harnessActive \in IF hasRoot THEN BOOLEAN ELSE {FALSE}
    /\ reflectMarker = FALSE
    /\ corrupt \in IF hasRoot THEN BOOLEAN ELSE {FALSE}
    /\ tasks \in IF corrupt \/ ~hasRoot THEN {<<>>}
                 ELSE UNION {[1..n -> DecidePool] : n \in 0..MaxDecide}
    /\ mode \in {NoKey, "exclusive", "concurrent"}
    /\ workerId \in IF mode = "concurrent" THEN {"", "w1", "w2"} ELSE {"", "w1"}
    /\ limitReached \in BOOLEAN
    /\ stopCounter = NoCounter
    /\ decision = "none"
    /\ warn = FALSE
    /\ flag = FALSE
    /\ cntBefore = stopCounter
    /\ allActive = TRUE
    /\ maxEnv = Absent
    /\ rcounter = [s \in Sessions |-> Absent]
    /\ out = [decision |-> "none", iter |-> 0, max |-> 0]
    /\ sid = ""
    /\ issued = [s \in Sessions |-> 0]
    /\ before = tasks
    /\ pendingReady = <<>>
    /\ retryReady = <<>>
    /\ nextTask = 0
    /\ changed = FALSE
    /\ reapNow = 0
    /\ op = "init"
    /\ InitLockVars
    /\ InitParseVars
    /\ InitPayloadVars
    /\ InitDoVars
    /\ InitStoreVars
    /\ InitClaimVars

NextDecide == \E active \in BOOLEAN : StopHook(active)

SpecDecide == InitDecide /\ [][NextDecide]_vars

----------------------------------------------------------------------------
(* The reflection hook (self-reflect-stop.py).  One invocation is one step: *)
(* invocations are sequential.  The payload's session_id is a session id or *)
(* is missing; writing the counter file can fail, which the hook ignores.   *)

DEFAULT_MAX_ITERATIONS == 5

\* int(os.environ.get("REFLECT_MAX_ITERATIONS", DEFAULT_MAX_ITERATIONS)),
\* DEFAULT_MAX_ITERATIONS when that raises
max_iter_zero_is_default ==
    IF maxEnv.k = "int" /\ maxEnv.v # 0 THEN maxEnv.v ELSE DEFAULT_MAX_ITERATIONS

max_iter == IF maxEnv.k = "int" THEN maxEnv.v ELSE DEFAULT_MAX_ITERATIONS

\* _read_counter: the integer on the file's first line, 0 when there is no
\* file or no integer
read_counter(s) == IF rcounter[s].k = "int" THEN rcounter[s].v ELSE 0

\* a plausible slip: one counter file for every session
write_counter_shared(s, count, ok) ==
    IF ok THEN rcounter' = [t \in Sessions |-> IntV(count)]
    ELSE rcounter' \in {rcounter, [t \in Sessions |-> Bad]}

\* _write_counter: the file holds count; a failed write is ignored and
\* leaves the file as it was, or empty when it was opened before the failure
write_counter(s, count, ok) ==
    IF ok THEN rcounter' = [rcounter EXCEPT ![s] = IntV(count)]
    ELSE rcounter' \in {rcounter, [rcounter EXCEPT ![s] = Bad]}

\* the invocation returns 0 without printing
Passes_ignores_active(s) ==
    \/ s = ""
    \/ ~hasRoot
    \/ max_iter <= 0
    \/ read_counter(s) >= max_iter

Passes(s) ==
    \/ s = ""
    \/ ~hasRoot
    \/ harnessActive
    \/ max_iter <= 0
    \/ read_counter(s) >= max_iter

\* main, from the session id of the payload on
ReflectMain(s, ok) ==
    /\ sid' = s
    /\ IF Passes(s)
       THEN /\ out' = Silent
            /\ UNCHANGED <<rcounter, issued>>
       ELSE /\ issued[s] < MaxIssued
            /\ write_counter(s, read_counter(s) + 1, ok)
            /\ out' = [decision |-> "block", iter |-> read_counter(s) + 1,
                       max |-> max_iter]
            /\ issued' = [issued EXCEPT ![s] = @ + 1]
    /\ UNCHANGED <<hasRoot, harnessActive, reflectMarker, maxEnv>>
    /\ UNCHANGED <<taskVars, lockVars, storeVars, claimVars, stopVars, parseVars, doVars>>

\* main, for a payload whose session_id is s
ReflectHook(s, ok) ==
    /\ ReflectMain(s, ok)
    /\ UNCHANGED payloadVars

\* the harness starts a run: .harness-active is created
Activate ==
    /\ hasRoot
    /\ ~harnessActive
    /\ harnessActive' = TRUE
    /\ UNCHANGED <<hasRoot, reflectMarker, maxEnv, rcounter, out, sid, issued>>
    /\ UNCHANGED <<taskVars, lockVars, storeVars, claimVars, stopVars, parseVars,
                   payloadVars, doVars>>

\* the run has drained: .harness-active is removed
Deactivate ==
    /\ harnessActive
    /\ harnessActive' = FALSE
    /\ UNCHANGED <<hasRoot, reflectMarker, maxEnv, rcounter, out, sid, issued>>
    /\ UNCHANGED <<taskVars, lockVars, storeVars, claimVars, stopVars, parseVars,
                   payloadVars, doVars>>

\* the values of REFLECT_MAX_ITERATIONS the model draws from: unset, not a
\* number, and numbers on both sides of 0
MaxEnvs == {Absent, Bad, IntV(0 - 1), IntV(0), IntV(2)}

\* sessions start with no counter file
InitReflect ==
    /\ hasRoot \in BOOLEAN
    /\ harnessActive \in IF hasRoot THEN BOOLEAN ELSE {FALSE}
    /\ reflectMarker \in IF hasRoot THEN BOOLEAN ELSE {FALSE}
    /\ maxEnv \in MaxEnvs
    /\ rcounter = [s \in Sessions |-> Absent]
    /\ out = [decision |-> "none", iter |-> 0, max |-> 0]
    /\ sid = ""
    /\ issued = [s \in Sessions |-> 0]
    /\ InitNoTasks
    /\ InitLockVars
    /\ InitParseVars
    /\ InitPayloadVars
    /\ InitDoVars
    /\ InitStoreVars
    /\ InitClaimVars
    /\ InitStopVars

NextReflect ==
    \/ \E s \in Sessions \cup {""}, ok \in BOOLEAN : ReflectHook(s, ok)
    \/ Activate
    \/ Deactivate

SpecReflect == InitReflect /\ [][NextReflect]_vars

----------------------------------------------------------------------------
(* The hook payload.  The host writes a JSON object to the hook's standard *)
(* input; read_hook_payload (_harness_common.py) and _read_payload          *)
(* (self-reflect-stop.py) are the same code.  sys.stdin is a text stream:   *)
(* read() decodes the bytes with the encoding and the error handler that    *)
(* the process's locale selects, "strict" under a UTF-8 locale and          *)
(* "surrogateescape" under the C / POSIX locale.                            *)

StdinEmpty == [k |-> "empty", session |-> ""]
\* whitespace only
StdinBlank == [k |-> "blank", session |-> ""]
\* text that is not JSON
StdinGarbage == [k |-> "garbage", session |-> ""]
\* bytes that are not text in the stream's encoding
StdinUndecodable == [k |-> "undecodable", session |-> ""]
\* a JSON list, number, string, boolean or null
StdinNonObject == [k |-> "nonobject", session |-> ""]
\* a JSON object; session is its session_id, "" when it has none
StdinObject(s) == [k |-> "object", session |-> s]

Stdins ==
    {StdinEmpty, StdinBlank, StdinGarbage, StdinUndecodable, StdinNonObject}
        \cup {StdinObject(s) : s \in Sessions \cup {""}}

\* {}
EmptyPayload == [raised |-> "no", empty |-> TRUE, session |-> ""]

\* an exception leaves the reader
PayloadRaised(e) == [raised |-> e, empty |-> TRUE, session |-> ""]

\* raw = sys.stdin.read(), outside the try: under the strict error handler
\* bytes that do not decode raise UnicodeDecodeError; under surrogateescape
\* they become text, which json.loads rejects
stdin_read(in, strict) ==
    IF in.k = "undecodable"
    THEN IF strict THEN PayloadRaised("UnicodeDecodeError")
                   ELSE [raised |-> "no", text |-> StdinGarbage]
    ELSE [raised |-> "no", text |-> in]

\* the rest of the reader: {} for blank text, for text json.loads raises on
\* and for JSON that is not an object
payload_of(text) ==
    IF text.k \in {"empty", "blank"} THEN EmptyPayload
    ELSE IF text.k = "garbage" THEN EmptyPayload
    ELSE IF text.k = "nonobject" THEN EmptyPayload
    ELSE [raised |-> "no", empty |-> FALSE, session |-> text.session]

read_hook_payload(in, strict) ==
    IF stdin_read(in, strict).raised # "no" THEN stdin_read(in, strict)
    ELSE payload_of(stdin_read(in, strict).text)

\* _read_payload of self-reflect-stop.py: the same statements
read_payload(in, strict) ==
    IF stdin_read(in, strict).raised # "no" THEN stdin_read(in, strict)
    ELSE payload_of(stdin_read(in, strict).text)

\* an uncaught exception: a traceback on stderr, nothing on stdout
Traceback == [decision |-> "error", iter |-> 0, max |-> 0]

\* one run of self-reflect-stop.py on the standard input `in`:
\* payload = _read_payload(); session_id = payload.get("session_id", ""); ...
\* raise SystemExit(main())
RunReflect(in, strict, ok) ==
    /\ stdin' = [content |-> in, strict |-> strict]
    /\ payload' = read_payload(in, strict)
    /\ IF read_payload(in, strict).raised # "no"
       THEN /\ rc' = 1
            /\ out' = Traceback
            /\ UNCHANGED <<hasRoot, harnessActive, reflectMarker, maxEnv, rcounter,
                           sid, issued>>
            /\ UNCHANGED <<taskVars, lockVars, storeVars, claimVars, stopVars,
                           parseVars, doVars>>
       ELSE /\ rc' = 0
            /\ ReflectMain(read_payload(in, strict).session, ok)

InitPayload ==
    /\ hasRoot \in BOOLEAN
    /\ harnessActive \in IF hasRoot THEN BOOLEAN ELSE {FALSE}
    /\ reflectMarker = FALSE
    /\ maxEnv \in {IntV(0), IntV(2)}
    /\ rcounter = [s \in Sessions |-> Absent]
    /\ out = [decision |-> "none", iter |-> 0, max |-> 0]
    /\ sid = ""
    /\ issued = [s \in Sessions |-> 0]
    /\ InitNoTasks
    /\ InitLockVars
    /\ InitParseVars
    /\ InitPayloadVars
    /\ InitDoVars
    /\ InitStoreVars
    /\ InitClaimVars
    /\ InitStopVars

NextPayload ==
    \E in \in Stdins, strict \in BOOLEAN, ok \in BOOLEAN : RunReflect(in, strict, ok)

SpecPayload == InitPayload /\ [][NextPayload]_vars

----------------------------------------------------------------------------
(* Properties of the eligibility engine, stated on the document's fields *)

\* some completed task of the list has id d
IdCompleted(ts, d) ==
    \E j \in DOMAIN ts : ts[j].id = d /\ ts[j].status = "completed"

HasUnmetDep(ts, i) ==
    /\ ts[i].depends_on.k = "list"
    /\ \E n \in DOMAIN ts[i].depends_on.v : ~IdCompleted(ts, ts[i].depends_on.v[n])

AllDepsMet(ts, i) ==
    \A n \in DOMAIN ts[i].depends_on.v : IdCompleted(ts, ts[i].depends_on.v[n])

\* the fields eligibility reads hold values of the documented types
WellTyped(t) ==
    /\ t.depends_on.k \in {"list", "absent"}
    /\ t.attempts.k \in {"int", "absent"}
    /\ t.max_attempts.k \in {"int", "absent"}

AttemptsOf(t) == IF t.attempts.k = "int" THEN t.attempts.v ELSE 0

MaxAttemptsOf(t) == IF t.max_attempts.k = "absent" THEN 3 ELSE t.max_attempts.v

Retryable(t) == t.status = "failed" /\ AttemptsOf(t) < MaxAttemptsOf(t)

\* C5: a task with at least one dependency id that belongs to no completed
\* task is in neither list returned by eligible_tasks, whatever its status,
\* attempts or max_attempts.
C5_UnmetDepNeverEligible ==
    op = "eligible" =>
        \A i \in DOMAIN tasks :
            HasUnmetDep(tasks, i) =>
                ~InSeq(i, pendingReady) /\ ~InSeq(i, retryReady)

\* eligible_tasks has run on a list holding a pending task and a retryable
\* failed task that each have an unmet dependency
C5_Witness ==
    /\ op = "eligible"
    /\ \E i \in DOMAIN tasks : HasUnmetDep(tasks, i) /\ tasks[i].status = "pending"
    /\ \E i \in DOMAIN tasks : HasUnmetDep(tasks, i) /\ Retryable(tasks[i])
    /\ \E i \in DOMAIN tasks : tasks[i].status = "completed"

NoRepeats(s) == \A a, b \in DOMAIN s : a # b => s[a] # s[b]

\* C6: eligible_tasks returns exactly the eligible tasks: pending-ready iff
\* pending with all dependencies completed, retry-ready iff failed with
\* attempts < max_attempts (3 when absent) and all dependencies completed;
\* in_progress and completed tasks are in neither list, no task is in both.
C6_EligibleExactly ==
    op = "eligible" =>
        /\ \A n \in DOMAIN pendingReady : pendingReady[n] \in DOMAIN tasks
        /\ \A n \in DOMAIN retryReady : retryReady[n] \in DOMAIN tasks
        /\ NoRepeats(pendingReady) /\ NoRepeats(retryReady)
        /\ \A i \in DOMAIN tasks :
            /\ ~(InSeq(i, pendingReady) /\ InSeq(i, retryReady))
            /\ InSeq(i, pendingReady) => tasks[i].status = "pending"
            /\ InSeq(i, retryReady) => tasks[i].status = "failed"
            /\ tasks[i].status \in {"in_progress", "completed"} =>
                   ~InSeq(i, pendingReady) /\ ~InSeq(i, retryReady)
            /\ WellTyped(tasks[i]) =>
                /\ InSeq(i, pendingReady) <=>
                       tasks[i].status = "pending" /\ AllDepsMet(tasks, i)
                /\ InSeq(i, retryReady) <=>
                       Retryable(tasks[i]) /\ AllDepsMet(tasks, i)

\* eligible_tasks has returned two non-empty lists for a list that also
\* holds a failed task with attempts = max_attempts and its dependencies met
C6_Witness ==
    /\ op = "eligible"
    /\ pendingReady # <<>>
    /\ retryReady # <<>>
    /\ \E i \in DOMAIN tasks :
          /\ tasks[i].status = "failed"
          /\ WellTyped(tasks[i])
          /\ AttemptsOf(tasks[i]) = MaxAttemptsOf(tasks[i])
          /\ AllDepsMet(tasks, i)

\* C7: pick_next returns the head of pending-ready whenever it is not empty
\* (a pending task, never a retry), the head of retry-ready only when
\* pending-ready is empty, and nothing only when both are empty.
C7_PickNextPrefersPending ==
    op = "pick" =>
        /\ pendingReady # <<>> =>
              nextTask = pendingReady[1] /\ tasks[nextTask].status = "pending"
        /\ (pendingReady = <<>> /\ retryReady # <<>>) =>
              nextTask = retryReady[1] /\ tasks[nextTask].status = "failed"
        /\ nextTask = 0 <=> (pendingReady = <<>> /\ retryReady = <<>>)

\* pick_next has chosen while both lists were non-empty
C7_Witness ==
    /\ op = "pick"
    /\ pendingReady # <<>>
    /\ retryReady # <<>>
    /\ nextTask = pendingReady[1]

\* P0 before P1 before P2 before anything else
RankOf(t) ==
    CASE t.priority = "P0" -> 0
      [] t.priority = "P1" -> 1
      [] t.priority = "P2" -> 2
      [] OTHER -> 3

\* the list of positions s is ascending by (priority rank, id)
Ascending(ts, s) ==
    \A a, b \in DOMAIN s :
        a < b =>
            \/ RankOf(ts[s[a]]) < RankOf(ts[s[b]])
            \/ /\ RankOf(ts[s[a]]) = RankOf(ts[s[b]])
               /\ ~StrLess(ts[s[b]].id, ts[s[a]].id)

\* C8: each list returned by eligible_tasks is ascending by (priority rank,
\* id): P0 before P1 before P2 before unknown or missing priority, and equal
\* priorities by id ascending.
C8_SortedByPriorityThenId ==
    op = "eligible" =>
        Ascending(tasks, pendingReady) /\ Ascending(tasks, retryReady)

\* a returned list in which a task stored later comes first: once because of
\* its priority, once because of its id among equal priorities
C8_Witness ==
    /\ op = "eligible"
    /\ \E a, b \in DOMAIN retryReady :
          /\ a < b /\ retryReady[a] > retryReady[b]
          /\ RankOf(tasks[retryReady[a]]) < RankOf(tasks[retryReady[b]])
    /\ \E a, b \in DOMAIN retryReady :
          /\ a < b /\ retryReady[a] > retryReady[b]
          /\ RankOf(tasks[retryReady[a]]) = RankOf(tasks[retryReady[b]])
          /\ StrLess(tasks[retryReady[a]].id, tasks[retryReady[b]].id)

DistinctIds(ts) == \A a, b \in DOMAIN ts : a # b => ts[a].id # ts[b].id

Permuted(ts, f) == [i \in DOMAIN ts |-> ts[f[i]]]

TasksAt(ts, s) == [n \in DOMAIN s |-> ts[s[n]]]

\* C9: eligible_tasks leaves the task list as it was, and when the ids are
\* distinct the two lists of tasks it returns are the same for every order
\* in which the tasks are stored.
C9_PureAndOrderIndependent ==
    op = "eligible" =>
        /\ tasks = before
        /\ DistinctIds(tasks) =>
              \A f \in Permutations(DOMAIN tasks) :
                  LET ts2 == Permuted(tasks, f)
                      r == eligible_tasks(ts2)
                  IN  /\ TasksAt(ts2, r.pending) = TasksAt(tasks, pendingReady)
                      /\ TasksAt(ts2, r.retry) = TasksAt(tasks, retryReady)

\* eligible_tasks has run on a list of distinct ids and returned two tasks
\* in the reverse of their stored order
C9_Witness ==
    /\ op = "eligible"
    /\ DistinctIds(tasks)
    /\ Len(tasks) >= 3
    /\ \E a, b \in DOMAIN pendingReady : a < b /\ pendingReady[a] > pendingReady[b]

----------------------------------------------------------------------------
(* Properties of lease reaping *)

\* in_progress with an expiry that is present, parseable and not after now
Expired(t, now) ==
    /\ t.status = "in_progress"
    /\ t.lease_expires_at.k = "iso"
    /\ t.lease_expires_at.t - t.lease_expires_at.off <= now

EntriesOf(t) == IF t.error_log.k = "list" THEN t.error_log.v ELSE <<>>

\* C10: for every in_progress task whose lease has expired, one call to
\* reap_stale_leases adds exactly 1 to attempts and appends exactly one
\* error_log entry, which names the prior claimed_by; the earlier entries
\* are kept in order.
C10_ReapCountsAndLogsOnce ==
    op = "reap" =>
        \A i \in DOMAIN before :
            Expired(before[i], reapNow) =>
                /\ tasks[i].attempts = IntV(AttemptsOf(before[i]) + 1)
                /\ tasks[i].error_log.k = "list"
                /\ Len(tasks[i].error_log.v) = Len(EntriesOf(before[i])) + 1
                /\ SubSeq(tasks[i].error_log.v, 1, Len(EntriesOf(before[i])))
                       = EntriesOf(before[i])
                /\ before[i].claimed_by # NoKey =>
                       InSeq(before[i].claimed_by,
                             tasks[i].error_log.v[Len(tasks[i].error_log.v)])

\* a reap has expired the lease of a claimed task that already had an
\* error_log entry, and left another in_progress task alone
C10_Witness ==
    /\ op = "reap"
    /\ changed
    /\ \E i \in DOMAIN before :
          /\ Expired(before[i], reapNow)
          /\ before[i].claimed_by # NoKey
          /\ EntriesOf(before[i]) # <<>>
    /\ \E i \in DOMAIN before :
          before[i].status = "in_progress" /\ tasks[i].status = "in_progress"

\* the parsed expiry of an in_progress task lies after instant a and not
\* after instant b
ExpiresBetween(t, a, b) ==
    /\ t.status = "in_progress"
    /\ t.lease_expires_at.k = "iso"
    /\ a < t.lease_expires_at.t - t.lease_expires_at.off
    /\ t.lease_expires_at.t - t.lease_expires_at.off <= b

\* a call of reap_stale_leases directly follows another on the same list
ReapAgain == op = "reap" /\ op' = "reap"

\* C11 as stated: a second reap_stale_leases of a list already reaped, with
\* the same or a later now, changes no task and returns False.
C11_ReapTwiceAnyLaterNow ==
    [][(ReapAgain /\ reapNow' >= reapNow) => (tasks' = tasks /\ ~changed')]_vars

\* C11 amended: a second reap_stale_leases of a list already reaped changes
\* no task and returns False when now is the same, or is later and no lease
\* of a task still in_progress expires between the two instants.
C11_ReapIdempotent ==
    [][(/\ ReapAgain
        /\ reapNow' >= reapNow
        /\ \A i \in DOMAIN tasks : ~ExpiresBetween(tasks[i], reapNow, reapNow'))
          => (tasks' = tasks /\ ~changed')]_vars

\* a list holding a task that an earlier reap has failed (its last log entry
\* is the timeout message) has been reaped again and nothing changed
C11_Witness ==
    /\ op = "reap"
    /\ ~changed
    /\ before = tasks
    /\ \E i \in DOMAIN tasks :
          /\ tasks[i].status = "failed"
          /\ EntriesOf(tasks[i]) # <<>>
          /\ EntriesOf(tasks[i])[Len(EntriesOf(tasks[i]))][1]
                 = "[SESSION_TIMEOUT] Lease expired (claimed_by="


\* C12: reap_stale_leases modifies a task iff it is in_progress and its
\* lease_expires_at is present, parseable and at or before now; every other
\* task is left as it was, the number and order of the tasks is kept, and the
\* returned flag is True iff at least one task was modified.
C12_ReapFrame ==
    op = "reap" =>
        /\ Len(tasks) = Len(before)
        /\ \A i \in DOMAIN before :
              /\ tasks[i].id = before[i].id
              /\ (tasks[i] # before[i]) <=> Expired(before[i], reapNow)
        /\ changed <=> (\E i \in DOMAIN before : tasks[i] # before[i])

\* one reap has failed a task whose lease expired exactly at now and has left
\* alone an in_progress task with a later expiry and one with an expiry that
\* is missing or malformed
C12_Witness ==
    /\ op = "reap"
    /\ \E i, j, k \in DOMAIN before :
          /\ before[i].status = "in_progress"
          /\ before[i].lease_expires_at.k = "iso"
          /\ before[i].lease_expires_at.t - before[i].lease_expires_at.off = reapNow
          /\ tasks[i].status = "failed"
          /\ before[j].status = "in_progress"
          /\ before[j].lease_expires_at.k = "iso"
          /\ before[j].lease_expires_at.t - before[j].lease_expires_at.off > reapNow
          /\ tasks[j] = before[j]
          /\ before[k].status = "in_progress"
          /\ before[k].lease_expires_at.k # "iso"
          /\ tasks[k] = before[k]

\* eligibility is computed on a list that has just been reaped
EligibleAfterReap == op = "reap" /\ op' = "eligible"

\* C30 as stated: a task whose expired lease has been reaped is in the
\* retry-ready list, its dependencies being completed.
C30_ReapedIsEligible ==
    [][EligibleAfterReap =>
          \A i \in DOMAIN before :
              (/\ Expired(before[i], reapNow)
               /\ deps_completed(tasks[i], completed_ids(tasks))) =>
                  InSeq(i, retryReady')]_vars

\* C30 amended: a task whose expired lease has been reaped is in the
\* retry-ready list, its dependencies being completed, exactly when its
\* attempts, which the reap has increased by 1, are below max_attempts.
C30_ReapedIsEligibleWithAttemptsLeft ==
    [][EligibleAfterReap =>
          \A i \in DOMAIN before :
              (/\ Expired(before[i], reapNow)
               /\ deps_completed(tasks[i], completed_ids(tasks))) =>
                  (InSeq(i, retryReady') <=>
                       task_attempts(tasks[i]) < task_max_attempts(tasks[i]))]_vars

\* a reaped task, recognisable by the time-out entry that ends its error_log
\* and names worker w2, is retry-ready
C30_Witness ==
    /\ op = "eligible"
    /\ \E i \in DOMAIN tasks :
           /\ tasks[i].status = "failed"
           /\ EntriesOf(tasks[i]) # <<>>
           /\ InSeq("w2", EntriesOf(tasks[i])[Len(EntriesOf(tasks[i]))])
           /\ InSeq(i, retryReady)

----------------------------------------------------------------------------
(* Properties of the document store *)

\* C13: at every step of atomic_write_json, and after a crash of the writer
\* between any two steps, the document path holds (and a reader has seen)
\* the complete previous content or the complete new content, never a
\* partial or an empty file.
C13_NeverHalfWritten ==
    /\ doc \in {prev, Full(data)}
    /\ doc.part = "full"
    /\ readDoc.part = "full"

\* after an earlier save went through, the writer has crashed in the middle
\* of writing the temporary file, and a reader has read the document since
C13_Witness ==
    /\ wpc = "crashed"
    /\ tmp.part = "partial"
    /\ bak.part = "full"
    /\ doc.ver >= 1
    /\ readDoc = doc

----------------------------------------------------------------------------
(* Properties of claiming *)

\* C14: whatever the interleaving of workers that read without the lock,
\* choose and then claim, no task is claimed by two workers for the same
\* lease, and no write replaces the claimed_by a claimant has committed.
C14_NoDuplicateClaims ==
    [][\A i \in DOMAIN tasks :
          /\ Cardinality(claimers'[i]) <= 1
          /\ tasks[i].claimed_by # NoKey =>
                 tasks'[i].claimed_by = tasks[i].claimed_by]_vars

----------------------------------------------------------------------------
(* Properties of loading the document *)

\* the document is structurally invalid: its top-level value is no object,
\* or its tasks field is present and no list
Invalid(f) ==
    \/ f.k \notin {"object", "not json"}
    \/ f.k = "object" /\ f.tasks.k \notin {"absent", "list"}

\* C29 as stated: loading and parsing a document whose top-level value is no
\* object, or whose tasks field is no list, raises nothing and yields the
\* empty task list.
C29_InvalidYieldsEmpty ==
    (Invalid(file) /\ ppc # "idle") =>
        /\ state.raised = "none"
        /\ ppc # "loaded" => (ppc = "parsed" /\ parsed = Returned(<<>>))

\* C29 amended: a top-level value that is no object makes load_json raise
\* ValueError; a tasks field that is no list makes parse_tasks raise
\* ValueError when Python counts the value as true, and yields the empty task
\* list without error when it counts as false.
C29_InvalidRaisesUnlessFalsy ==
    (Invalid(file) /\ ppc # "idle") =>
        IF file.k # "object"
        THEN ppc = "failed" /\ state = Raised("ValueError")
        ELSE /\ state.raised = "none"
             /\ ppc # "loaded" =>
                    IF file.tasks.truthy
                    THEN ppc = "failed" /\ parsed = Raised("ValueError")
                    ELSE ppc = "parsed" /\ parsed = Returned(<<>>)

\* a document whose tasks field is a non-empty string was loaded, and
\* parsing it raised ValueError
C29_Witness ==
    /\ file = Object(FieldScalar("str", TRUE))
    /\ ppc = "failed"
    /\ state.raised = "none"
    /\ parsed = Raised("ValueError")

----------------------------------------------------------------------------
(* Properties of the Stop hook's safety valve *)

\* the valve has opened: the stop is allowed, with a warning, although the
\* document is readable
ForcedAllow == decision = "allow" /\ warn /\ ~corrupt

C17_CounterUpdate ==
    [][\A active \in BOOLEAN :
          (StopHook(active) /\ ~corrupt /\ decision' = "block") =>
              IF CompletedCount(tasks) > stopCounter.completed
              THEN stopCounter' = Counter(1, CompletedCount(tasks))
              ELSE stopCounter' = Counter(stopCounter.blocks + 1,
                                          stopCounter.completed)]_vars

\* a block that found "7,c" with fewer completed tasks recorded than there
\* are, and left "1,completed"
C17_Witness ==
    /\ decision = "block"
    /\ cntBefore.blocks = 7
    /\ cntBefore.completed < CompletedCount(tasks)
    /\ stopCounter = Counter(1, CompletedCount(tasks))

\* C18: when the hook is re-invoked again and again with stop_hook_active
\* and no task is ever completed, it eventually allows the stop.
C18_EventuallyAllow == <>(decision = "allow")

\* the stop was allowed by force while every task is in progress without a
\* lease or waits for a dependency that is never completed
C18_Witness ==
    /\ ForcedAllow
    /\ flag
    /\ tasks # <<>>
    /\ \A i \in DOMAIN tasks :
           \/ tasks[i].status = "in_progress" /\ tasks[i].lease_expires_at = NoLease
           \/ tasks[i].status = "pending" /\ ~deps_completed(tasks[i], completed_ids(tasks))

\* C19: when the document cannot be loaded and the invocation carries
\* stop_hook_active, the hook allows the stop with a warning and writes
\* nothing to the document.
C19_CorruptAllows ==
    [][(StopHook(TRUE) /\ corrupt) =>
           /\ decision' = "allow"
           /\ warn'
           /\ tasks' = tasks
           /\ doc' = doc]_vars

\* an invocation with stop_hook_active found the document corrupt
C19_Witness ==
    /\ corrupt
    /\ flag
    /\ decision = "allow"
    /\ warn

----------------------------------------------------------------------------
(* Properties of the Stop hook's decision *)

C27_ExclusiveDecision ==
    [][/\ \A active \in BOOLEAN :
             (StopHook(active) /\ ~harnessActive) =>
                 /\ decision' = "allow"
                 /\ ~warn'
       /\ (/\ StopHook(FALSE)
           /\ hasRoot /\ harnessActive /\ ~corrupt
           /\ ~limitReached /\ ~is_concurrent) =>
              (decision' = "block" <=>
                   \/ \E i \in DOMAIN tasks : tasks[i].status = "in_progress"
                   \/ eligible_tasks(tasks).pending # <<>>
                   \/ eligible_tasks(tasks).retry # <<>>)]_vars

\* with .harness-active present, the stop was allowed although one task is
\* pending on an unmet dependency and another has failed for the last time
C27_Witness ==
    /\ decision = "allow"
    /\ ~flag
    /\ harnessActive
    /\ ~corrupt
    /\ ~limitReached
    /\ ~is_concurrent
    /\ \E i \in DOMAIN tasks :
           /\ tasks[i].status = "pending"
           /\ ~deps_completed(tasks[i], completed_ids(tasks))
    /\ \E i \in DOMAIN tasks :
           /\ tasks[i].status = "failed"
           /\ task_attempts(tasks[i]) >= task_max_attempts(tasks[i])

\* C28: in concurrent mode, with no eligible task, a stop check for worker W
\* blocks exactly when some in-progress task is claimed by W, so another
\* worker's task does not block W; with no worker identity it blocks when
\* some in-progress task is claimed by a worker.
C28_ConcurrentOwnership ==
    [][(/\ StopHook(FALSE)
        /\ hasRoot /\ harnessActive /\ ~corrupt
        /\ ~limitReached /\ is_concurrent
        /\ eligible_tasks(tasks).pending = <<>>
        /\ eligible_tasks(tasks).retry = <<>>) =>
           /\ workerId # "" =>
                  (decision' = "block" <=>
                       \E i \in DOMAIN tasks :
                           /\ tasks[i].status = "in_progress"
                           /\ tasks[i].claimed_by = workerId)
           /\ (/\ workerId = ""
               /\ \E i \in DOMAIN tasks :
                      /\ tasks[i].status = "in_progress"
                      /\ tasks[i].claimed_by # NoKey) =>
                  decision' = "block"]_vars

\* worker w2 was allowed to stop while a task is in progress under w1's claim
C28_Witness ==
    /\ decision = "allow"
    /\ ~flag
    /\ harnessActive
    /\ ~limitReached
    /\ is_concurrent
    /\ workerId = "w2"
    /\ \E i \in DOMAIN tasks :
           /\ tasks[i].status = "in_progress"
           /\ tasks[i].claimed_by = "w1"

----------------------------------------------------------------------------
(* Properties of the reflection hook *)

\* C20: with the reflection loop on and max = 5, the k-th invocation for a
\* session (k = 1..5) blocks with k/5 in its reason and every later one
\* prints nothing; for any max > 0 a session is issued at most max blocks.
C20_BoundedReflection ==
    /\ \A s \in Sessions : max_iter > 0 => issued[s] <= max_iter
    /\ out.decision = "block" =>
           /\ out.iter = issued[sid]
           /\ out.max = max_iter

\* the fifth invocation for a session, every counter write having succeeded:
\* it blocks with 5/5 and leaves 5 in the session's counter file
C20_Witness ==
    /\ out = [decision |-> "block", iter |-> 5, max |-> 5]
    /\ issued[sid] = 5
    /\ rcounter[sid] = IntV(5)

\* the reflection loop of session s is exhausted: the hook reaches the
\* comparison of the counter with max and finds it at or above max
Exhausted(s) ==
    /\ s # ""
    /\ hasRoot
    /\ ~harnessActive
    /\ max_iter > 0
    /\ read_counter(s) >= max_iter

\* C21: an invocation that finds the session's counter at or above max
\* prints nothing and removes .harness-reflect.
C21_ExhaustedRemovesMarker ==
    [][\A s \in Sessions, ok \in BOOLEAN :
          (ReflectHook(s, ok) /\ Exhausted(s)) =>
              /\ out' = Silent
              /\ ~reflectMarker']_vars

\* an invocation found the counter at max while .harness-reflect existed
C21_Witness ==
    /\ sid \in Sessions
    /\ Exhausted(sid)
    /\ out = Silent
    /\ reflectMarker

\* C22: with harness-tasks.json found, .harness-active absent and
\* .harness-reflect absent, an invocation prints nothing and leaves the
\* session's counter as it was.
C22_NoMarkerNoReflection ==
    [][\A s \in Sessions, ok \in BOOLEAN :
          (ReflectHook(s, ok) /\ hasRoot /\ ~harnessActive /\ ~reflectMarker) =>
              /\ out' = Silent
              /\ rcounter' = rcounter]_vars

\* a block was issued although .harness-reflect does not exist
C22_Witness ==
    /\ out.decision = "block"
    /\ hasRoot
    /\ ~harnessActive
    /\ ~reflectMarker

\* C23: while .harness-active exists, or when no harness-tasks.json is
\* found, an invocation prints nothing and creates or changes no counter.
C23_NoOpUntilDrained ==
    [][\A s \in Sessions \cup {""}, ok \in BOOLEAN :
          (ReflectHook(s, ok) /\ (harnessActive \/ ~hasRoot)) =>
              /\ out' = Silent
              /\ rcounter' = rcounter
              /\ issued' = issued]_vars

\* an invocation for a session printed nothing while .harness-active
\* existed, the session's counter being below max
C23_Witness ==
    /\ sid \in Sessions
    /\ out = Silent
    /\ hasRoot
    /\ harnessActive
    /\ max_iter > 0
    /\ read_counter(sid) < max_iter

\* C24: with REFLECT_MAX_ITERATIONS = 0 every invocation prints nothing and
\* creates or changes no counter, whatever markers exist.
C24_ZeroDisables ==
    [][\A s \in Sessions \cup {""}, ok \in BOOLEAN :
          (ReflectHook(s, ok) /\ maxEnv = IntV(0)) =>
              /\ out' = Silent
              /\ rcounter' = rcounter]_vars

\* an invocation for a session with the cap at 0, the harness drained and
\* .harness-reflect present, printed nothing
C24_Witness ==
    /\ sid \in Sessions
    /\ maxEnv = IntV(0)
    /\ out = Silent
    /\ hasRoot
    /\ ~harnessActive
    /\ reflectMarker
    /\ rcounter[sid] = Absent

\* C25: after the invocation that finds the session's counter at or above
\* max, the session has no counter file.
C25_ExhaustedDeletesCounter ==
    [][\A s \in Sessions, ok \in BOOLEAN :
          (ReflectHook(s, ok) /\ Exhausted(s)) => rcounter'[s] = Absent]_vars

\* the counter file is still there after the invocation that found it at max
C25_Witness ==
    /\ sid \in Sessions
    /\ Exhausted(sid)
    /\ out = Silent
    /\ rcounter[sid] # Absent

----------------------------------------------------------------------------
(* Properties of the lock *)

Holders == {p \in Procs : pc[p] = "held"}

Live(n) == n \in Procs /\ pc[n] \notin {"gone", "killed"}

\* process p's rename of the lock directory succeeds in this step
Renames(p) == pc[p] = "rename" /\ lock # NoDir /\ pc'[p] = "mkdir"

\* C1: at most one live process at a time has returned from acquire_lock
\* and not yet called release_lock, whatever the interleaving, including
\* holders that die while holding and contenders that take over a stale lock.
C1_MutualExclusion == Cardinality(Holders) <= 1

\* C2: acquire_lock never renames or removes a lock directory whose recorded
\* pid belongs to a live process; against such a holder it waits, and when
\* it raises TimeoutError the directory and its pid file are as they were.
C2_LiveHolderNeverEvicted ==
    [][\A p \in Procs :
          /\ Renames(p) => ~Live(lock.pid)
          /\ (pc[p] # "timeout" /\ pc'[p] = "timeout") => lock' = lock]_vars

\* C3: of the contenders that found the same lock directory stale (its
\* recorded pid dead), one renames it; the rename of every other one fails:
\* no rename succeeds for a contender whose stale directory has already been
\* renamed to a scratch name, so one stale directory is taken over once.
C3_OneTakeoverWinner ==
    [][\A p \in Procs :
          (Renames(p) /\ pid[p] # 0) => seen[p] \notin stale]_vars

\* the lock directory records the pid of a process killed while holding it
HeldByDead == lock # NoDir /\ lock.pid # 0 /\ pc[lock.pid] = "killed"

\* C4: when the process holding the lock has died without releasing it, a
\* contender that calls acquire_lock (is about to try mkdir) is followed by
\* some contender acquiring the lock.
C4_StaleLockRecovered ==
    (HeldByDead /\ \E p \in Procs : pc[p] = "mkdir")
        ~> (\E q \in Procs : pc[q] = "held")

\* a holder was killed, and another process now holds the lock with its own
\* pid recorded, which it can only have got by taking the stale lock over
C4_Witness ==
    \E d, q \in Procs :
        /\ pc[d] = "killed"
        /\ pc[q] = "held"
        /\ lock = [inst |-> q, pid |-> q]

----------------------------------------------------------------------------
(* The Stop hook of the do workflow (skills/do/hooks/stop-hook.py).  The    *)
(* workflow records its current task directory in                           *)
(* .claude/do-tasks/.current-task and the task's state in task.json there;  *)
(* task.json is written by the workflow's tools and edited by hand.         *)

\* a JSON string holding the digit n
StrV(n) == [k |-> "str", v |-> n]

\* task_info.get("current_phase", 1) and task_info.get("max_phases", 5)
DefaultCurrentPhase == 1
DefaultMaxPhases == 5

\* task.json: k says what get_task_info finds (no file, a file json.load
\* raises on, {}, another falsy JSON value, a truthy JSON value that is not
\* an object, an object with keys)
TaskJson(k, status, cur, max) ==
    [k |-> k, status |-> status, current_phase |-> cur, max_phases |-> max]

TaskJsonKinds ==
    {"missing", "unreadable", "empty_object", "falsy", "nonobject", "object"}

PhaseValues == {Absent, IntV(1), IntV(3), IntV(5), IntV(6), StrV(3)}
MaxPhaseValues == {Absent, IntV(3), IntV(5), StrV(5)}

TaskJsons ==
    {TaskJson(k, NoKey, Absent, Absent) : k \in TaskJsonKinds \ {"object"}}
        \cup {TaskJson("object", st, cur, max) :
                 st \in {NoKey, "in_progress", "completed"},
                 cur \in PhaseValues, max \in MaxPhaseValues}

\* .current-task: no file, a file that cannot be read, a blank file, a file
\* naming the task directory
CurrentTasks == {"missing", "unreadable", "blank", "dir"}

\* get_current_task: the directory named, or None
get_current_task(ct) == ct = "dir"

\* get_task_info: None when the file is missing or json.load raises,
\* otherwise the value loaded; `if not task_info` is true for None and for
\* every falsy value
task_info_falsy(tj) ==
    tj.k \in {"missing", "unreadable", "empty_object", "falsy"}

\* dict.get with a default
get_phase(v, default) == IF v = Absent THEN IntV(default) ELSE v

\* Python's >= is defined between two numbers and between two strings
Comparable(a, b) == a.k = b.k

\* check_task_complete: "" (allow), a reason (block), or an exception
check_task_complete(tj) ==
    LET current_phase == get_phase(tj.current_phase, DefaultCurrentPhase)
        max_phases == get_phase(tj.max_phases, DefaultMaxPhases)
    IN  IF task_info_falsy(tj) THEN "allow"
        ELSE IF tj.k = "nonobject" THEN "AttributeError"
        ELSE IF tj.status = "completed" THEN "allow"
        ELSE IF ~Comparable(current_phase, max_phases) THEN "TypeError"
        ELSE IF current_phase.v >= max_phases.v THEN "allow"
        ELSE "block"

\* main
DoStopHook ==
    /\ doOut' =
          IF ~get_current_task(currentTask) THEN [decision |-> "allow", rc |-> 0]
          ELSE IF check_task_complete(taskJson) = "allow"
               THEN [decision |-> "allow", rc |-> 0]
          ELSE IF check_task_complete(taskJson) = "block"
               THEN [decision |-> "block", rc |-> 0]
          ELSE [decision |-> "error", rc |-> 1]
    /\ UNCHANGED <<currentTask, taskJson>>
    /\ UNCHANGED <<taskVars, lockVars, storeVars, claimVars, stopVars, reflectVars,
                   parseVars, payloadVars>>

\* the workflow's tools or the user rewrite task.json
WriteTaskJson(tj) ==
    /\ currentTask = "dir"
    /\ taskJson' = tj
    /\ UNCHANGED <<currentTask, doOut>>
    /\ UNCHANGED <<taskVars, lockVars, storeVars, claimVars, stopVars, reflectVars,
                   parseVars, payloadVars>>

InitDo ==
    /\ currentTask \in CurrentTasks
    /\ taskJson \in TaskJsons
    /\ doOut = [decision |-> "none", rc |-> 0]
    /\ InitNoTasks
    /\ InitLockVars
    /\ InitParseVars
    /\ InitPayloadVars
    /\ InitStoreVars
    /\ InitClaimVars
    /\ InitStopVars
    /\ InitReflectVars

NextDo ==
    \/ DoStopHook
    \/ \E tj \in TaskJsons : WriteTaskJson(tj)

SpecDo == InitDo /\ [][NextDo]_vars

----------------------------------------------------------------------------
(* Properties of the life of a task document *)

\* the ids a task depends on
DepIds(t) ==
    IF t.depends_on.k = "list"
    THEN {t.depends_on.v[n] : n \in DOMAIN t.depends_on.v}
    ELSE {}

IdsOf(ts) == {ts[i].id : i \in DOMAIN ts}

\* task i depends on an id that no task of the document has
MissingDep(ts, i) == \E d \in DepIds(ts[i]) : d \notin IdsOf(ts)

\* task j is reached from task i along at most n dependencies (at least one)
RECURSIVE Reaches(_, _, _, _)
Reaches(ts, i, j, n) ==
    /\ n > 0
    /\ \E m \in DOMAIN ts :
          /\ ts[m].id \in DepIds(ts[i])
          /\ (m = j \/ Reaches(ts, m, j, n - 1))

\* task i is on a dependency cycle
OnCycle(ts, i) == Reaches(ts, i, i, Len(ts))

\* C31: a task that depends on an id not present in the document, and every
\* task on a dependency cycle, is in neither eligibility list in any state
\* reached by claims, completions, failures and reaps, and is still pending.
C31_UnsatisfiableStaysPending ==
    \A i \in DOMAIN tasks :
        (MissingDep(tasks, i) \/ OnCycle(tasks, i)) =>
            /\ ~InSeq(i, eligible_tasks(tasks).pending)
            /\ ~InSeq(i, eligible_tasks(tasks).retry)
            /\ tasks[i].status = "pending"

\* a document with a task on a missing id, a task on a cycle and a task that
\* has been claimed and completed
C31_Witness ==
    /\ op = "complete"
    /\ \E i \in DOMAIN tasks : MissingDep(tasks, i)
    /\ \E i \in DOMAIN tasks : OnCycle(tasks, i) /\ ~MissingDep(tasks, i)
    /\ \E i \in DOMAIN tasks : tasks[i].status = "completed"

\* C32: across reaps and recorded failures the attempts of every task, as
\* task_attempts reads it (0 for a missing or invalid value), never decreases.
C32_AttemptsMonotone ==
    [][\A i \in DOMAIN tasks :
          task_attempts(tasks'[i]) >= task_attempts(tasks[i])]_vars

\* a task whose attempts was not an integer has been reaped once, and a
\* failure of another task has been recorded
C32_Witness ==
    /\ op = "reap"
    /\ changed
    /\ tasks[2].max_attempts = IntV(2)
    /\ tasks[2].status = "failed"
    /\ tasks[2].attempts = IntV(1)
    /\ tasks[2].error_log # NoLog
    /\ \E i \in DOMAIN tasks :
          /\ tasks[i].status = "failed"
          /\ tasks[i].error_log = NoLog
          /\ task_attempts(tasks[i]) > 0

\* task t carries none of the lease fields
NoLeaseFields(t) ==
    /\ t.claimed_by = NoKey
    /\ t.lease_expires_at = NoLease
    /\ t.claimed_at = NoKey

\* C33: in every state reached by claims and reaps a task that is not
\* in_progress has no claimed_by, lease_expires_at or claimed_at; so every
\* task that a reap has turned to failed has lost all three.
C33_LeaseFieldsOnlyInProgress ==
    \A i \in DOMAIN tasks :
        tasks[i].status # "in_progress" => NoLeaseFields(tasks[i])

\* a reap has turned a claimed task to failed while another task is claimed
C33_Witness ==
    /\ op \in {"claim", "reap"}
    /\ \E i \in DOMAIN tasks :
          /\ tasks[i].status = "failed"
          /\ tasks[i].error_log # NoLog
    /\ \E i \in DOMAIN tasks :
          /\ tasks[i].status = "in_progress"
          /\ ~NoLeaseFields(tasks[i])

\* the number of times the lease of task t has been reaped: a plan starts
\* with no error_log and every reap adds one entry to it
ReapCount(t) == IF t.error_log.k = "list" THEN Len(t.error_log.v) ELSE 0

\* max(max_attempts, 1)
RetryBound(t) == IF task_max_attempts(t) > 1 THEN task_max_attempts(t) ELSE 1

\* C40: a task that starts with attempts 0 and is claimed only while it is
\* eligible is reaped at most max(max_attempts, 1) times; once it has been,
\* it is failed with attempts >= max_attempts and in neither eligibility list.
C40_RetriesBounded ==
    \A i \in DOMAIN tasks :
        /\ ReapCount(tasks[i]) <= RetryBound(tasks[i])
        /\ ReapCount(tasks[i]) = RetryBound(tasks[i]) =>
              /\ tasks[i].status = "failed"
              /\ task_attempts(tasks[i]) >= task_max_attempts(tasks[i])
              /\ ~InSeq(i, eligible_tasks(tasks).pending)
              /\ ~InSeq(i, eligible_tasks(tasks).retry)

\* a task with the default limit has been reaped three times and a task with
\* max_attempts 1 once
C40_Witness ==
    /\ tasks[1].max_attempts = Absent
    /\ ReapCount(tasks[1]) = DefaultMaxAttempts
    /\ tasks[2].max_attempts = IntV(1)
    /\ ReapCount(tasks[2]) = 1

----------------------------------------------------------------------------
(* Properties of the payload readers *)

\* the standard input of the last run was empty, not JSON or not an object
Malformed == stdin.content.k # "object"

\* C34: when standard input is empty, is not valid JSON or is JSON that is
\* not an object, the payload reader returns an empty object and the hook
\* exits with a normal decision code.
C34_MalformedInputDegrades ==
    (payload # NoPayload /\ Malformed) =>
        /\ payload = EmptyPayload
        /\ rc \in {0, 2}

\* input that does not decode has been read under the strict error handler
C34_Witness ==
    /\ stdin.content = StdinUndecodable
    /\ stdin.strict
    /\ payload.raised = "UnicodeDecodeError"
    /\ rc = 1

----------------------------------------------------------------------------
(* Properties of release_lock *)

\* process p makes a step of release_lock
ReleaseStep(p) == pc'[p] # pc[p]

\* that step ends a call of release_lock
ReleaseEnds(p) == ReleaseStep(p) /\ pc'[p] \in {"released", "released_twice"}

\* C35: release_lock on a lock directory that does not exist raises nothing
\* and changes nothing, and every call that ends, the second as the first,
\* leaves the lock absent.
C35_ReleaseIdempotent ==
    [][\A p \in Procs :
          /\ ReleaseStep(p) => pc'[p] # "error"
          /\ (ReleaseStep(p) /\ lock = NoDir) => (ReleaseEnds(p) /\ lock' = NoDir)
          /\ ReleaseEnds(p) => lock' = NoDir]_vars

\* a process has ended its second call of release_lock with no other
\* process active, and the lock is absent
C35_Witness ==
    \E p \in Procs :
        /\ pc[p] = "released_twice"
        /\ lock = NoDir
        /\ \A q \in Procs \ {p} : pc[q] = "idle"

----------------------------------------------------------------------------
(* Properties of the grace window and of the bounded wait *)

\* C36: a contender that read no pid from the lock directory goes on to
\* rename it only after it has seen the pid missing before (the grace window
\* has run), and not when a live process has written its pid into the
\* directory by the time the window is found to have run: such a process is
\* not evicted.
C36_GraceWindow ==
    [][\A p \in Procs :
          (pc[p] = "check" /\ pid[p] = 0 /\ pc'[p] = "rename") =>
              /\ missing_pid_since[p]
              /\ ~Live(lock.pid)]_vars

\* a contender has waited out the grace window and renamed a directory whose
\* creator, alive, never held the lock since
C36_Witness ==
    \E q \in Procs :
        /\ q \in stale
        /\ pc[q] = "held"
        /\ lock = NoDir
        /\ \E p \in Procs \ {q} : pc[p] = "mkdir" /\ ~missing_pid_since[p]

\* acquire_lock has been called by process p and has not ended
Acquiring(p) == pc[p] \in {"mkdir", "write_pid", "read_pid", "check", "rename"}

\* every call of acquire_lock ends, in one way or another
AcquireLockEnds ==
    \A p \in Procs : Acquiring(p) ~> ~Acquiring(p)

\* C37: every call of acquire_lock ends, by returning with the lock held or
\* by raising TimeoutError, whether the holder is alive, dead or has no pid
\* file.
C37_BoundedWait ==
    \A p \in Procs : Acquiring(p) ~> (pc[p] \in {"held", "timeout"})

\* a call of acquire_lock has ended with an exception that is not
\* TimeoutError, next to a call that returned and one that timed out
C37_Witness ==
    \E p, q, r \in Procs :
        /\ pc[p] = "error"
        /\ pc[q] = "timeout"
        /\ pc[r] \in {"held", "released"}

----------------------------------------------------------------------------
(* Frame of the reflection hook *)

\* the step is an invocation of the reflection hook that did something
ReflectStep == <<rcounter, out, sid, issued>>' # <<rcounter, out, sid, issued>>

\* C38: an invocation of the reflection hook for session S changes at most
\* S's own counter: not the task document, not .harness-active, not the
\* safety valve's counter file and not the counter of another session.
C38_ReflectFrame ==
    [][ReflectStep =>
          /\ tasks' = tasks
          /\ harnessActive' = harnessActive
          /\ stopCounter' = stopCounter
          /\ \A t \in Sessions \ {sid'} : rcounter'[t] = rcounter[t]]_vars

\* two sessions have been blocked a different number of times
C38_Witness ==
    /\ out.decision = "block"
    /\ sid = "s2"
    /\ rcounter["s1"] = IntV(2)
    /\ rcounter["s2"] = IntV(1)

----------------------------------------------------------------------------
(* Properties of the do workflow's Stop hook *)

\* current_phase < max_phases with the defaults 1 and 5
PhaseBelowMax(tj) ==
    LET cur == get_phase(tj.current_phase, DefaultCurrentPhase)
        max == get_phase(tj.max_phases, DefaultMaxPhases)
    IN  Comparable(cur, max) /\ cur.v < max.v

\* a current task is recorded, its task.json is readable, its status is not
\* completed and current_phase < max_phases
MustBlock ==
    /\ currentTask = "dir"
    /\ taskJson.k \notin {"missing", "unreadable"}
    /\ taskJson.status # "completed"
    /\ PhaseBelowMax(taskJson)

\* C39: the do workflow's Stop hook emits a block decision exactly when a
\* current task is recorded, its task.json is readable, its status is not
\* completed and current_phase < max_phases (default 5); in every other case
\* it exits 0 with no output.  (A run of the hook is a step that changes what
\* the hook printed last; it leaves the two files as they are.)
C39_DoStopDecision ==
    [][doOut' # doOut =>
          doOut' = IF MustBlock THEN [decision |-> "block", rc |-> 0]
                   ELSE [decision |-> "allow", rc |-> 0]]_vars

\* the hook has ended with a traceback on a task.json that is valid JSON
C39_Witness ==
    /\ currentTask = "dir"
    /\ taskJson.k \in {"nonobject", "object"}
    /\ doOut = [decision |-> "error", rc |-> 1]

====
